---- MODULE Spec2Model ----
(***************************************************************************)
(* Schedule computation and backup-log reconciliation of lavoz-cloud       *)
(* (src-tauri/src/schedule.rs, src-tauri/src/config.rs, rclone.rs).        *)
(*                                                                         *)
(* Instants are Unix timestamps in seconds (chrono DateTime<Utc>), naive   *)
(* local date-times are seconds since 1970-01-01T00:00:00 of the local     *)
(* wall clock (chrono NaiveDateTime), dates are day numbers since          *)
(* 1970-01-01 (chrono NaiveDate).  Option<T> is a sequence of length 0     *)
(* (None) or 1 (Some(x)).  Strings that the code parses are sequences of   *)
(* one-character strings.                                                  *)
(***************************************************************************)
EXTENDS Integers, Sequences, FiniteSets, TLC

VARIABLES
    tz,       \* the system's local time zone (chrono::Local)
    now,      \* the system clock, Utc::now()
    config,   \* the persisted config.json (AppConfig): profiles, backup_operations
    logs,     \* the per-profile log files backup-<profile_id>.log (None = no file)
    rc,       \* the sync_scheduled_backup_logs call in progress (its locals)
    last,     \* the last reconciliation that returned, until the next write
    manual_runs, \* the number of manual runs so far
    calc      \* calculate_next_run under test: its argument and its result

vars == <<tz, now, config, logs, rc, last, manual_runs, calc>>

None == <<>>
Some(x) == <<x>>
IsSome(o) == Len(o) = 1
Unwrap(o) == o[1]

SetMin(S) == CHOOSE x \in S : \A y \in S : x <= y

(***************************************************************************)
(* Calendar arithmetic (chrono NaiveDate / NaiveTime).                     *)
(***************************************************************************)
SecondsPerDay == 86400

IsLeapYear(y) == (y % 4 = 0 /\ y % 100 # 0) \/ y % 400 = 0

DaysInMonth(y, m) ==
    IF m = 2 THEN (IF IsLeapYear(y) THEN 29 ELSE 28)
    ELSE IF m \in {4, 6, 9, 11} THEN 30 ELSE 31

\* day number of the proleptic Gregorian date y-m-d
DaysFromCivil(y, m, d) ==
    LET yy  == IF m <= 2 THEN y - 1 ELSE y
        era == yy \div 400
        yoe == yy - era * 400
        mp  == IF m > 2 THEN m - 3 ELSE m + 9
        doy == (153 * mp + 2) \div 5 + d - 1
        doe == yoe * 365 + yoe \div 4 - yoe \div 100 + doy
    IN  era * 146097 + doe - 719468

\* the date (year, month, day) of a day number, in stages: the 400-year era
\* and the day in it, the year of the era, the day of that year (counted from
\* March 1), the month index (March = 0)
Era(z) == (z + 719468) \div 146097
DayOfEra(z) == (z + 719468) - Era(z) * 146097
YearOfEra(doe) == (doe - doe \div 1460 + doe \div 36524 - doe \div 146096) \div 365
DayOfYear(doe, yoe) == doe - (365 * yoe + yoe \div 4 - yoe \div 100)
MonthIndex(doy) == (5 * doy + 2) \div 153

CivilFromMonthIndex(era, yoe, doy, mp) ==
    LET m == IF mp < 10 THEN mp + 3 ELSE mp - 9
    IN  [year  |-> yoe + era * 400 + (IF m <= 2 THEN 1 ELSE 0),
         month |-> m,
         day   |-> doy - (153 * mp + 2) \div 5 + 1]

CivilFromDayOfYear(era, yoe, doy) == CivilFromMonthIndex(era, yoe, doy, MonthIndex(doy))

CivilFromDayOfEra(era, doe) ==
    CivilFromDayOfYear(era, YearOfEra(doe), DayOfYear(doe, YearOfEra(doe)))

CivilFromDays(z) == CivilFromDayOfEra(Era(z), DayOfEra(z))

\* NaiveDate::from_ymd_opt: None when the day does not exist in the month
from_ymd_opt(y, m, d) ==
    IF m \in 1..12 /\ d >= 1 /\ d <= DaysInMonth(y, m)
    THEN Some(DaysFromCivil(y, m, d)) ELSE None

\* Weekday::num_days_from_sunday of a day number (1970-01-01 was a Thursday)
num_days_from_sunday(date) == (date + 4) % 7

\* NaiveDate::and_time
and_time(date, time) == date * SecondsPerDay + time

date_naive(naive) == naive \div SecondsPerDay

(***************************************************************************)
(* The local time zone (chrono::Local).  "UTC" has no offset; the zone     *)
(* "America/Chicago" is the zone of the log format's example time stamps   *)
(* (CST = UTC-6, CDT = UTC-5 from the second Sunday of March 02:00 to the  *)
(* first Sunday of November 02:00).                                        *)
(***************************************************************************)
Zones == {"UTC", "America/Chicago"}

FirstSundayOnOrAfter(date) == date + ((7 - num_days_from_sunday(date)) % 7)

DstStartUtc(y) == (FirstSundayOnOrAfter(DaysFromCivil(y, 3, 1)) + 7) * SecondsPerDay + 8 * 3600
DstEndUtc(y)   == FirstSundayOnOrAfter(DaysFromCivil(y, 11, 1)) * SecondsPerDay + 7 * 3600

\* offset of local time from UTC at a UTC instant
InDst(utc, y) == utc >= DstStartUtc(y) /\ utc < DstEndUtc(y)

UtcOffset(zone, utc) ==
    IF zone = "UTC" THEN 0
    ELSE IF InDst(utc, CivilFromDays(utc \div SecondsPerDay).year)
         THEN -5 * 3600 ELSE -6 * 3600

\* DateTime<Utc>::with_timezone(&Local).naive_local()
naive_local(zone, utc) == utc + UtcOffset(zone, utc)

\* Local.from_local_datetime: the set of instants that show this wall-clock
\* time (LocalResult::None = {}, Single = one instant, Ambiguous = two)
from_local_datetime(zone, naive) ==
    { u \in { naive, naive + 5 * 3600, naive + 6 * 3600 } : naive_local(zone, u) = naive }

\* LocalResult::single
single(res) == IF Cardinality(res) = 1 THEN Some(CHOOSE u \in res : TRUE) ELSE None

\* LocalResult::earliest
earliest(res) == IF res = {} THEN None ELSE Some(SetMin(res))

(***************************************************************************)
(* NaiveTime::parse_from_str(s, "%H:%M"): one or two digits, a colon, one  *)
(* or two digits, nothing after; hour below 24, minute below 60.           *)
(***************************************************************************)
Digits == {"0", "1", "2", "3", "4", "5", "6", "7", "8", "9"}

DigitVal(c) ==
    CASE c = "0" -> 0 [] c = "1" -> 1 [] c = "2" -> 2 [] c = "3" -> 3 [] c = "4" -> 4
      [] c = "5" -> 5 [] c = "6" -> 6 [] c = "7" -> 7 [] c = "8" -> 8 [] c = "9" -> 9

\* number of leading digits of s, at most two
DigitRun(s) ==
    IF Len(s) >= 1 /\ s[1] \in Digits
    THEN (IF Len(s) >= 2 /\ s[2] \in Digits THEN 2 ELSE 1)
    ELSE 0

NumVal(s, n) == IF n = 1 THEN DigitVal(s[1]) ELSE 10 * DigitVal(s[1]) + DigitVal(s[2])

\* Some(seconds since midnight) or None
parse_time(s) ==
    LET n1 == DigitRun(s)
        r1 == SubSeq(s, n1 + 1, Len(s))
        r2 == SubSeq(r1, 2, Len(r1))
        n2 == DigitRun(r2)
    IN  IF n1 = 0 \/ Len(r1) = 0 \/ r1[1] # ":" \/ n2 = 0 \/ Len(r2) # n2
        THEN None
        ELSE IF NumVal(s, n1) > 23 \/ NumVal(r2, n2) > 59
             THEN None
             ELSE Some(NumVal(s, n1) * 3600 + NumVal(r2, n2) * 60)

(***************************************************************************)
(* schedule.rs: calculate_next_run.  `t` is Local::now() as an instant.    *)
(***************************************************************************)
\* days_until_target with the equal weekday sent to next week
days_until_target_next_week(target_weekday, current_weekday) ==
    IF target_weekday > current_weekday
    THEN target_weekday - current_weekday
    ELSE 7 - current_weekday + target_weekday

\* u8 arithmetic of the weekly branch
days_until_target(target_weekday, current_weekday) ==
    IF target_weekday >= current_weekday
    THEN target_weekday - current_weekday
    ELSE 7 - current_weekday + target_weekday

\* the local date at the schedule's time as an instant, if it is unambiguous
LocalAt(zone, date, time) == single(from_local_datetime(zone, and_time(date, time)))

\* next_run_daily that still returns today's run at the very instant it is due
next_run_daily_not_strict(zone, t, time) ==
    LET today_local    == date_naive(naive_local(zone, t))
        today_local_dt == LocalAt(zone, today_local, time)
    IN  IF today_local_dt = None THEN None
        ELSE IF Unwrap(today_local_dt) >= t
             THEN today_local_dt
             ELSE LocalAt(zone, today_local + 1, time)

next_run_daily(zone, t, time) ==
    LET today_local    == date_naive(naive_local(zone, t))
        today_local_dt == LocalAt(zone, today_local, time)
    IN  IF today_local_dt = None THEN None
        ELSE IF Unwrap(today_local_dt) > t
             THEN today_local_dt
             ELSE LocalAt(zone, today_local + 1, time)

next_run_weekly(zone, t, time, target_weekday) ==
    LET today_local       == date_naive(naive_local(zone, t))
        current_weekday   == num_days_from_sunday(today_local)
        days_until        == days_until_target(target_weekday, current_weekday)
        today_local_dt    == LocalAt(zone, today_local, time)
    IN  IF days_until = 0
        THEN IF today_local_dt = None THEN None
             ELSE IF Unwrap(today_local_dt) > t
                  THEN LocalAt(zone, today_local, time)
                  ELSE LocalAt(zone, today_local + 7, time)
        ELSE LocalAt(zone, today_local + days_until, time)

\* next_run_monthly that tries this month only for a day after today
next_run_monthly_after_today(zone, t, time, target_day) ==
    LET today_local == date_naive(naive_local(zone, t))
        today       == CivilFromDays(today_local)
        this_month  == from_ymd_opt(today.year, today.month, target_day)
        next_month  == IF today.month = 12
                       THEN from_ymd_opt(today.year + 1, 1, target_day)
                       ELSE from_ymd_opt(today.year, today.month + 1, target_day)
        in_next     == IF next_month = None THEN None
                       ELSE LocalAt(zone, Unwrap(next_month), time)
    IN  IF target_day > today.day /\ this_month # None
        THEN LET target_local_dt == LocalAt(zone, Unwrap(this_month), time)
             IN  IF target_local_dt = None THEN None
                 ELSE IF Unwrap(target_local_dt) > t THEN target_local_dt
                      ELSE in_next
        ELSE in_next

\* next_run_monthly whose December wrap forgets the year increment
next_run_monthly_same_year(zone, t, time, target_day) ==
    LET today_local == date_naive(naive_local(zone, t))
        today       == CivilFromDays(today_local)
        this_month  == from_ymd_opt(today.year, today.month, target_day)
        next_month  == IF today.month = 12
                       THEN from_ymd_opt(today.year, 1, target_day)
                       ELSE from_ymd_opt(today.year, today.month + 1, target_day)
        in_next     == IF next_month = None THEN None
                       ELSE LocalAt(zone, Unwrap(next_month), time)
    IN  IF target_day >= today.day /\ this_month # None
        THEN LET target_local_dt == LocalAt(zone, Unwrap(this_month), time)
             IN  IF target_local_dt = None THEN None
                 ELSE IF Unwrap(target_local_dt) > t THEN target_local_dt
                      ELSE in_next
        ELSE in_next

next_run_monthly(zone, t, time, target_day) ==
    LET today_local == date_naive(naive_local(zone, t))
        today       == CivilFromDays(today_local)
        this_month  == from_ymd_opt(today.year, today.month, target_day)
        next_month  == IF today.month = 12
                       THEN from_ymd_opt(today.year + 1, 1, target_day)
                       ELSE from_ymd_opt(today.year, today.month + 1, target_day)
        in_next     == IF next_month = None THEN None
                       ELSE LocalAt(zone, Unwrap(next_month), time)
    IN  IF target_day >= today.day /\ this_month # None
        THEN LET target_local_dt == LocalAt(zone, Unwrap(this_month), time)
             IN  IF target_local_dt = None THEN None
                 ELSE IF Unwrap(target_local_dt) > t THEN target_local_dt
                      ELSE in_next
        ELSE in_next

\* calculate_next_run without the check of `enabled`
calculate_next_run_ignores_enabled(zone, t, schedule) ==
    LET time == parse_time(schedule.time)
    IN  IF time = None THEN None
        ELSE CASE schedule.frequency.kind = "Daily" ->
                    next_run_daily(zone, t, Unwrap(time))
               [] schedule.frequency.kind = "Weekly" ->
                    next_run_weekly(zone, t, Unwrap(time), schedule.frequency.n)
               [] schedule.frequency.kind = "Monthly" ->
                    next_run_monthly(zone, t, Unwrap(time), schedule.frequency.n)

calculate_next_run(zone, t, schedule) ==
    IF ~schedule.enabled THEN None
    ELSE LET time == parse_time(schedule.time)
         IN  IF time = None THEN None
             ELSE CASE schedule.frequency.kind = "Daily" ->
                         next_run_daily(zone, t, Unwrap(time))
                    [] schedule.frequency.kind = "Weekly" ->
                         next_run_weekly(zone, t, Unwrap(time), schedule.frequency.n)
                    [] schedule.frequency.kind = "Monthly" ->
                         next_run_monthly(zone, t, Unwrap(time), schedule.frequency.n)

(***************************************************************************)
(* The calculator on its own: every schedule of CalcSchedules at every     *)
(* instant of CalcNows in every zone.                                      *)
(***************************************************************************)
Str0900 == <<"0", "9", ":", "0", "0">>
Str1000 == <<"1", "0", ":", "0", "0">>
Str0230 == <<"0", "2", ":", "3", "0">>
Str0130 == <<"0", "1", ":", "3", "0">>
Str2500 == <<"2", "5", ":", "0", "0">>
StrJunk == <<"9", "a", "m">>

ValidTimeStrings == {Str0900, Str1000, Str0230, Str0130}
TimeStrings == ValidTimeStrings \cup {Str2500, StrJunk}

Daily == [kind |-> "Daily", n |-> 0]
Weekly(w) == [kind |-> "Weekly", n |-> w]
Monthly(d) == [kind |-> "Monthly", n |-> d]

\* the largest day-of-month argument tried beyond the days every month has
MaxMonthDay == 32
CalcMonthDays == {0, 1, 9, 15} \cup 28..MaxMonthDay
CalcFrequencies == {Daily} \cup {Weekly(w) : w \in 0..6} \cup {Monthly(d) : d \in CalcMonthDays}

\* dates at which the calculator is run: month ends, a leap day, the days
\* around both clock changes, a year end and an ordinary Wednesday
CalcDates == {
    DaysFromCivil(2024, 1, 31), DaysFromCivil(2024, 2, 29),
    DaysFromCivil(2025, 1, 15), DaysFromCivil(2025, 1, 31),
    DaysFromCivil(2025, 3, 8),  DaysFromCivil(2025, 3, 9),
    DaysFromCivil(2025, 4, 30), DaysFromCivil(2025, 8, 20),
    DaysFromCivil(2025, 11, 1), DaysFromCivil(2025, 11, 2),
    DaysFromCivil(2025, 12, 31) }

\* times of day (UTC) of those runs: around 09:00 and 10:00 in either zone
CalcTimesOfDay == {
    2 * 3600, 9 * 3600 - 1, 9 * 3600, 9 * 3600 + 1, 11 * 3600,
    14 * 3600, 15 * 3600 - 1, 15 * 3600, 15 * 3600 + 1, 16 * 3600, 23 * 3600 + 1800 }

CalcNows == { d * SecondsPerDay + s : d \in CalcDates, s \in CalcTimesOfDay }

CalcSchedules ==
    [enabled : BOOLEAN, frequency : CalcFrequencies, time : TimeStrings,
     last_run : {None}, next_run : {None}]

IdleRc == [pc |-> "idle"]
NoLast == [cmd |-> "none"]
EmptyConfig == [profiles |-> <<>>, backup_operations |-> <<>>]

InitCalc ==
    /\ tz \in Zones
    /\ now \in CalcNows
    /\ calc \in [schedule : CalcSchedules, done : {FALSE}, result : {None}]
    /\ config = EmptyConfig
    /\ logs = <<>>
    /\ rc = IdleRc
    /\ last = NoLast
    /\ manual_runs = 0

\* one call calculate_next_run(&schedule)
Compute ==
    /\ ~calc.done
    /\ calc' = [calc EXCEPT !.done = TRUE,
                            !.result = calculate_next_run(tz, now, calc.schedule)]
    /\ UNCHANGED <<tz, now, config, logs, rc, last, manual_runs>>

NextCalc == Compute

SpecCalc == InitCalc /\ [][NextCalc]_vars

(***************************************************************************)
(* The persisted store (config.json) and the operations on it.             *)
(***************************************************************************)
ProfileIds == {"p1", "p2"}     \* the profiles of config.profiles
UnknownId == "px"              \* the id of no profile
LogWriter == "p1"              \* the profile whose runner script writes a log

\* save_backup_operation keeps the first 100 operations
HistoryCap == 100

\* the duplicate window of sync_scheduled_backup_logs, in seconds
DuplicateWindow == 60

Abs(x) == IF x < 0 THEN -x ELSE x

Truncate(s, n) == IF Len(s) > n THEN SubSeq(s, 1, n) ELSE s

\* save_backup_operation without the truncation
save_backup_operation_no_cap(cfg, operation) ==
    [cfg EXCEPT !.backup_operations = <<operation>> \o cfg.backup_operations]

\* config.rs save_backup_operation: insert at the front, keep the first 100
save_backup_operation(cfg, operation) ==
    [cfg EXCEPT !.backup_operations =
        Truncate(<<operation>> \o cfg.backup_operations, HistoryCap)]

\* update_schedule_after_backup that also updates a disabled schedule
update_schedule_after_backup_ignores_enabled(cfg, zone, t, profile_id, backup_started_at) ==
    IF /\ profile_id \in DOMAIN cfg.profiles
       /\ cfg.profiles[profile_id].schedule # None
    THEN LET schedule == Unwrap(cfg.profiles[profile_id].schedule)
             with_last == [schedule EXCEPT !.last_run = Some(backup_started_at)]
             updated   == [with_last EXCEPT !.next_run = calculate_next_run(zone, t, with_last)]
         IN  [cfg EXCEPT !.profiles[profile_id].schedule = Some(updated)]
    ELSE cfg

\* update_schedule_after_backup that leaves last_run alone
update_schedule_after_backup_keeps_last_run(cfg, zone, t, profile_id, backup_started_at) ==
    IF /\ profile_id \in DOMAIN cfg.profiles
       /\ cfg.profiles[profile_id].schedule # None
       /\ Unwrap(cfg.profiles[profile_id].schedule).enabled
    THEN LET schedule == Unwrap(cfg.profiles[profile_id].schedule)
             updated  == [schedule EXCEPT !.next_run = calculate_next_run(zone, t, schedule)]
         IN  [cfg EXCEPT !.profiles[profile_id].schedule = Some(updated)]
    ELSE cfg

\* config.rs update_schedule_after_backup: only an enabled schedule of an
\* existing profile is touched
update_schedule_after_backup(cfg, zone, t, profile_id, backup_started_at) ==
    IF /\ profile_id \in DOMAIN cfg.profiles
       /\ cfg.profiles[profile_id].schedule # None
       /\ Unwrap(cfg.profiles[profile_id].schedule).enabled
    THEN LET schedule == Unwrap(cfg.profiles[profile_id].schedule)
             with_last == [schedule EXCEPT !.last_run = Some(backup_started_at)]
             updated   == [with_last EXCEPT !.next_run = calculate_next_run(zone, t, with_last)]
         IN  [cfg EXCEPT !.profiles[profile_id].schedule = Some(updated)]
    ELSE cfg

\* schedule.rs schedule_backup, lines 18-34: next_run by the "simple local time
\* calculation"; ok = FALSE is the Err return
simple_next_run(zone, t, schedule) ==
    LET time == parse_time(schedule.time)
    IN  IF time = None THEN [ok |-> FALSE, next_run |-> None]
        ELSE LET today_local    == date_naive(naive_local(zone, t))
                 today_local_dt == LocalAt(zone, today_local, Unwrap(time))
                 tomorrow_dt    == LocalAt(zone, today_local + 1, Unwrap(time))
             IN  IF today_local_dt = None THEN [ok |-> FALSE, next_run |-> None]
                 ELSE IF Unwrap(today_local_dt) > t
                      THEN [ok |-> TRUE, next_run |-> today_local_dt]
                      ELSE IF tomorrow_dt = None THEN [ok |-> FALSE, next_run |-> None]
                           ELSE [ok |-> TRUE, next_run |-> tomorrow_dt]

(***************************************************************************)
(* The log file and its lines (config.rs sync_scheduled_backup_logs).      *)
(***************************************************************************)
MonthAbbrevs == <<"Jan", "Feb", "Mar", "Apr", "May", "Jun",
                  "Jul", "Aug", "Sep", "Oct", "Nov", "Dec">>

\* a parse that takes a day past the end of the month for the month's last day
parse_timestamp_lenient(stamp) ==
    IF \E m \in 1..12 : MonthAbbrevs[m] = stamp.mon
    THEN LET m == CHOOSE k \in 1..12 : MonthAbbrevs[k] = stamp.mon
             last_day == DaysInMonth(stamp.year, m)
             date == from_ymd_opt(stamp.year, m, IF stamp.day > last_day THEN last_day ELSE stamp.day)
         IN  IF date = None \/ stamp.time \notin 0..(SecondsPerDay - 1) THEN None
             ELSE Some(and_time(Unwrap(date), stamp.time))
    ELSE None

\* NaiveDateTime::parse_from_str("<mon> <day> <year> <H:M:S>", "%b %d %Y %H:%M:%S")
parse_timestamp(stamp) ==
    IF \E m \in 1..12 : MonthAbbrevs[m] = stamp.mon
    THEN LET m == CHOOSE k \in 1..12 : MonthAbbrevs[k] = stamp.mon
             date == from_ymd_opt(stamp.year, m, stamp.day)
         IN  IF date = None \/ stamp.time \notin 0..(SecondsPerDay - 1) THEN None
             ELSE Some(and_time(Unwrap(date), stamp.time))
    ELSE None

\* lines 484-487: earliest local mapping, or the wall-clock time read as UTC
start_time_utc(zone, start_time) ==
    LET local_dt == earliest(from_local_datetime(zone, start_time))
    IN  IF local_dt = None THEN start_time ELSE Unwrap(local_dt)

\* the time stamps the runner script writes: two runs 45 seconds apart, and a
\* run in the hour that the end of DST repeats
StampA == [mon |-> "Aug", day |-> 20, year |-> 2025, time |-> 22 * 60 + 5]
StampB == [mon |-> "Aug", day |-> 20, year |-> 2025, time |-> 22 * 60 + 50]
StampC == [mon |-> "Nov", day |-> 2, year |-> 2025, time |-> 3600 + 1800]
Stamps == {StampA, StampB, StampC}

\* a run exactly 60 seconds after StampA; a time stamp of the right shape that
\* is no date (August 32); a time stamp that is not of the shape that
\* start_regex asks for
StampD == [mon |-> "Aug", day |-> 20, year |-> 2025, time |-> 22 * 60 + 5 + 60]
StampBad == [mon |-> "Aug", day |-> 32, year |-> 2025, time |-> 22 * 60 + 5]
StampIso == [iso |-> "2025-08-20T00:22:05"]

StartLine(stamp) == [kind |-> "start", stamp |-> stamp]
CompleteLine == [kind |-> "complete"]
OtherLine == [kind |-> "other"]

\* "Transferred: <n> / <m>, <p>%": the line that transferred_regex matches;
\* `n` is the text of its first number (caps[1])
FilesLine(n) == [kind |-> "files", n |-> n]

\* "Transferred: <size> / <size>, ...": the line that stats_regex matches;
\* number, sep and unit are the text of its second size (caps[2], the one the
\* code reads): characters of [0-9.,], white space, and [KMGT]?i?B
BytesLine(number, sep, unit) ==
    [kind |-> "bytes", number |-> number, sep |-> sep, unit |-> unit]

LineAlphabet == {StartLine(st) : st \in Stamps} \cup {CompleteLine, OtherLine}

\* line 458, start_regex.captures(line): the line says "Starting backup for
\* profile" after a time stamp of the shape "Www Mmm d HH:MM:SS ZZZ YYYY"
start_regex(line) ==
    line.kind = "start" /\ DOMAIN line.stamp = {"mon", "day", "year", "time"}

\* line 459, complete_regex.captures(line)
complete_regex(line) == line.kind = "complete"

(***************************************************************************)
(* u64 counts.  The model checker's integers are narrower than u64, so a   *)
(* count is three limbs of six decimal digits, lowest first (up to 10^18;  *)
(* no count of the model comes near u64::MAX).                             *)
(***************************************************************************)
Limb == 1000000

U64(n) == << n % Limb, (n \div Limb) % Limb, (n \div Limb) \div Limb >>

\* x * m + a for small m and a
MulAdd(x, m, a) ==
    LET p1 == x[1] * m + a
        p2 == x[2] * m + p1 \div Limb
        p3 == x[3] * m + p2 \div Limb
    IN  << p1 % Limb, p2 % Limb, p3 >>

\* x \div d for small d
DivSmall(x, d) ==
    LET t2 == (x[3] % d) * Limb + x[2]
        t1 == (t2 % d) * Limb + x[1]
    IN  << t1 \div d, t2 \div d, x[3] \div d >>

RECURSIVE DigitsValue(_, _)
\* the number that the digits of s, after those of acc, write
DigitsValue(acc, s) ==
    IF s = <<>> THEN acc ELSE DigitsValue(MulAdd(acc, 10, DigitVal(Head(s))), Tail(s))

\* str::parse::<u64>: one or more digits (a sign is not in the lines of the model)
parse_u64(s) ==
    IF s # <<>> /\ \A k \in DOMAIN s : s[k] \in Digits
    THEN [ok |-> TRUE, value |-> DigitsValue(U64(0), s)]
    ELSE [ok |-> FALSE, value |-> U64(0)]

\* str::parse::<f64> of a text of digits and points: digits with at most one
\* point among them; the value is mantissa / 10^frac
parse_f64(s) ==
    LET points == { k \in DOMAIN s : s[k] = "." }
        digits == SelectSeq(s, LAMBDA c : c # ".")
    IN  IF /\ digits # <<>>
           /\ \A k \in DOMAIN digits : digits[k] \in Digits
           /\ Cardinality(points) <= 1
        THEN [ok |-> TRUE, mantissa |-> DigitsValue(U64(0), digits),
              frac |-> IF points = {} THEN 0 ELSE Len(s) - (CHOOSE k \in points : TRUE)]
        ELSE [ok |-> FALSE, mantissa |-> U64(0), frac |-> 0]

RECURSIVE Scaled(_, _, _)
\* (num * 1024.0 * ... ) as u64: the mantissa times 1024^power over 10^frac,
\* rounded down (exact in f64 for the sizes of the model)
Scaled(mantissa, power, frac) ==
    IF power > 0 THEN Scaled(MulAdd(mantissa, 1024, 0), power - 1, frac)
    ELSE IF frac > 0 THEN Scaled(DivSmall(mantissa, 10), 0, frac - 1)
         ELSE mantissa

ends_with(s, suffix) ==
    Len(s) >= Len(suffix) /\ SubSeq(s, Len(s) - Len(suffix) + 1, Len(s)) = suffix

RECURSIVE trim_end_matches(_, _)
trim_end_matches(s, suffix) ==
    IF ends_with(s, suffix) THEN trim_end_matches(SubSeq(s, 1, Len(s) - Len(suffix)), suffix)
    ELSE s

\* size_str.replace(",", "").replace(" ", "")
Stripped(s) == SelectSeq(s, LAMBDA c : c # "," /\ c # " ")

\* the binary-unit branches of parse_byte_size: parse::<f64>()?, then the
\* product as u64
BinarySize(size_str, unit, power) ==
    LET num == parse_f64(trim_end_matches(size_str, unit))
    IN  IF num.ok THEN [ok |-> TRUE, value |-> Scaled(num.mantissa, power, num.frac)]
        ELSE [ok |-> FALSE, value |-> U64(0)]

\* config.rs parse_byte_size, lines 618-636: KiB, MiB, GiB, then any other
\* text that ends in B, then a bare number
ByteSizeOf(size_str) ==
    IF ends_with(size_str, <<"K", "i", "B">>) THEN BinarySize(size_str, <<"K", "i", "B">>, 1)
    ELSE IF ends_with(size_str, <<"M", "i", "B">>) THEN BinarySize(size_str, <<"M", "i", "B">>, 2)
    ELSE IF ends_with(size_str, <<"G", "i", "B">>) THEN BinarySize(size_str, <<"G", "i", "B">>, 3)
    ELSE IF ends_with(size_str, <<"B">>) THEN parse_u64(trim_end_matches(size_str, <<"B">>))
    ELSE parse_u64(size_str)

parse_byte_size(size_str) == ByteSizeOf(Stripped(size_str))

\* lines 538-549: the counts that a line with "Transferred:" sets; a text
\* that does not parse leaves the count as it is
WithFiles(op, files) ==
    IF files.ok THEN [op EXCEPT !.files_transferred = files.value] ELSE op

WithBytes(op, bytes) ==
    IF bytes.ok THEN [op EXCEPT !.bytes_transferred = bytes.value] ELSE op

\* lines 533-551: a line that is no marker, read while an operation is open
Accumulate(op, line) ==
    LET logd == [op EXCEPT !.log_output = Append(@, line)]
    IN  IF line.kind = "files" THEN WithFiles(logd, parse_u64(line.n))
        ELSE IF line.kind = "bytes"
             THEN WithBytes(logd, parse_byte_size(line.number \o line.sep \o line.unit))
             ELSE logd

\* the duplicate check with the comparison turned round
already_saved_never(existing_operations, started_at) ==
    \E k \in DOMAIN existing_operations :
        Abs(existing_operations[k].started_at - started_at) > DuplicateWindow

\* the duplicate check that takes a difference of exactly 60 seconds too
already_saved_at_60(existing_operations, started_at) ==
    \E k \in DOMAIN existing_operations :
        Abs(existing_operations[k].started_at - started_at) <= DuplicateWindow

\* lines 512-515 and 561-564
already_saved(existing_operations, started_at) ==
    \E k \in DOMAIN existing_operations :
        Abs(existing_operations[k].started_at - started_at) < DuplicateWindow

\* lines 442-445: the operations of the profile, in stored order
FilterProfile(ops, profile_id) ==
    LET F[k \in 0..Len(ops)] ==
            IF k = 0 THEN <<>>
            ELSE IF ops[k].profile_id = profile_id THEN Append(F[k - 1], ops[k])
                 ELSE F[k - 1]
    IN  F[Len(ops)]

\* uuid::Uuid::new_v4: an id that no stored operation has
FreshId(ops) == SetMin((1..(Len(ops) + 1)) \ {ops[k].id : k \in DOMAIN ops})

\* lines 490-501: the operation a start marker opens; start_line is the number
\* of the marker's line in the log (history of the model, not of the program)
NewOperation(id, profile_id, started_at, line_no) ==
    [id |-> id, profile_id |-> profile_id, operation_type |-> "Backup",
     status |-> "Running", started_at |-> started_at, completed_at |-> None,
     files_transferred |-> U64(0), bytes_transferred |-> U64(0), error_message |-> None,
     log_output |-> <<>>, start_line |-> line_no]

\* rclone.rs backup_run, lines 431-442: the record of a manual run
ManualOperation(id, profile_id, t) ==
    [id |-> id, profile_id |-> profile_id, operation_type |-> "Backup",
     status |-> "Completed", started_at |-> t, completed_at |-> Some(t),
     files_transferred |-> U64(0), bytes_transferred |-> U64(0), error_message |-> None,
     log_output |-> <<>>, start_line |-> 0]

\* a close that leaves the operation Running, with no completed_at
CloseOperation_keeps_running(cfg, zone, t, r, op) ==
    LET dup    == already_saved(r.existing_operations, op.started_at)
        saved  == IF dup THEN cfg ELSE save_backup_operation(cfg, op)
    IN  [config |-> update_schedule_after_backup(saved, zone, t, r.profile_id, op.started_at),
         rc |-> [r EXCEPT !.current_operation = None,
                          !.operations_created = IF dup THEN @ ELSE @ + 1,
                          !.closed = @ + 1,
                          !.last_started = Some(op.started_at),
                          !.last_t = Some(t)]]

\* a close that counts the duplicates too
CloseOperation_counts_duplicates(cfg, zone, t, r, op) ==
    LET closed == [op EXCEPT !.status = "Completed", !.completed_at = Some(t)]
        dup    == already_saved(r.existing_operations, closed.started_at)
        saved  == IF dup THEN cfg ELSE save_backup_operation(cfg, closed)
    IN  [config |-> update_schedule_after_backup(saved, zone, t, r.profile_id, closed.started_at),
         rc |-> [r EXCEPT !.current_operation = None,
                          !.operations_created = @ + 1,
                          !.closed = @ + 1,
                          !.last_started = Some(closed.started_at),
                          !.last_t = Some(t)]]

\* a close without the duplicate check: every closed run is saved and counted
CloseOperation_saves_again(cfg, zone, t, r, op) ==
    LET closed == [op EXCEPT !.status = "Completed", !.completed_at = Some(t)]
        saved  == save_backup_operation(cfg, closed)
    IN  [config |-> update_schedule_after_backup(saved, zone, t, r.profile_id, closed.started_at),
         rc |-> [r EXCEPT !.current_operation = None,
                          !.operations_created = @ + 1,
                          !.closed = @ + 1,
                          !.last_started = Some(closed.started_at),
                          !.last_t = Some(t)]]

\* a close that looks for the duplicate in the store as it is now, not in the
\* snapshot of the start of the call
CloseOperation_checks_store(cfg, zone, t, r, op) ==
    LET closed == [op EXCEPT !.status = "Completed", !.completed_at = Some(t)]
        dup    == already_saved(FilterProfile(cfg.backup_operations, r.profile_id),
                                closed.started_at)
        saved  == IF dup THEN cfg ELSE save_backup_operation(cfg, closed)
    IN  [config |-> update_schedule_after_backup(saved, zone, t, r.profile_id, closed.started_at),
         rc |-> [r EXCEPT !.current_operation = None,
                          !.operations_created = IF dup THEN @ ELSE @ + 1,
                          !.closed = @ + 1,
                          !.last_started = Some(closed.started_at),
                          !.last_t = Some(t)]]

\* a close that, for a duplicate, writes the run just closed over the records
\* of the store that it duplicates
CloseOperation_replaces_duplicate(cfg, zone, t, r, op) ==
    LET closed == [op EXCEPT !.status = "Completed", !.completed_at = Some(t)]
        dup    == already_saved(r.existing_operations, closed.started_at)
        saved  == IF dup
                  THEN [cfg EXCEPT !.backup_operations =
                          [k \in DOMAIN @ |->
                              IF /\ @[k].profile_id = closed.profile_id
                                 /\ Abs(@[k].started_at - closed.started_at) < DuplicateWindow
                              THEN closed ELSE @[k]]]
                  ELSE save_backup_operation(cfg, closed)
    IN  [config |-> update_schedule_after_backup(saved, zone, t, r.profile_id, closed.started_at),
         rc |-> [r EXCEPT !.current_operation = None,
                          !.operations_created = IF dup THEN @ ELSE @ + 1,
                          !.closed = @ + 1,
                          !.last_started = Some(closed.started_at),
                          !.last_t = Some(t)]]

\* lines 508-529 and 556-575: close the open operation at instant t
\* (duplicate check against the snapshot, save, schedule update)
CloseOperation(cfg, zone, t, r, op) ==
    LET closed == [op EXCEPT !.status = "Completed", !.completed_at = Some(t)]
        dup    == already_saved(r.existing_operations, closed.started_at)
        saved  == IF dup THEN cfg ELSE save_backup_operation(cfg, closed)
    IN  [config |-> update_schedule_after_backup(saved, zone, t, r.profile_id, closed.started_at),
         rc |-> [r EXCEPT !.current_operation = None,
                          !.operations_created = IF dup THEN @ ELSE @ + 1,
                          !.closed = @ + 1,
                          !.last_started = Some(closed.started_at),
                          !.last_t = Some(t)]]

\* a start marker that first closes the operation still open, as the end of
\* the log does
OpenOperation_closes_previous(cfg, zone, t, r, start_time, line_no) ==
    LET res == IF r.current_operation = None \/ start_time = None
               THEN [config |-> cfg, rc |-> r]
               ELSE CloseOperation(cfg, zone, t, r, Unwrap(r.current_operation))
    IN  IF start_time = None THEN res
        ELSE [config |-> res.config,
              rc |-> [res.rc EXCEPT !.current_operation =
                        Some(NewOperation(FreshId(res.config.backup_operations), r.profile_id,
                                          start_time_utc(zone, Unwrap(start_time)), line_no))]]

\* lines 469-503: a line that start_regex matches; if its time stamp parses,
\* current_operation is assigned a new operation, whatever it held
OpenOperation(cfg, zone, t, r, start_time, line_no) ==
    IF start_time = None THEN [config |-> cfg, rc |-> r]
    ELSE [config |-> cfg,
          rc |-> [r EXCEPT !.current_operation =
                    Some(NewOperation(FreshId(cfg.backup_operations), r.profile_id,
                                      start_time_utc(zone, Unwrap(start_time)), line_no))]]

(***************************************************************************)
(* The commands, one at a time: a command starts when no reconciliation is *)
(* in progress; a reconciliation scans its log one line per step while the *)
(* clock may advance.                                                      *)
(***************************************************************************)
\* the clock: ClockStart = 2025-11-05 14:30:00 UTC, advancing in half hours
ClockStart == DaysFromCivil(2025, 11, 5) * SecondsPerDay + 14 * 3600 + 1800
ClockStep == 30 * 60
MaxTicks == 1
MaxLogLen == 3
MaxManual == 1

\* a history at the cap: 99 manual runs of p2, one an hour, and before them the
\* run of p1 that the first two lines of its log record
FullHistory(zone) ==
    [k \in 1..HistoryCap |->
        IF k = HistoryCap
        THEN [NewOperation(k, LogWriter, start_time_utc(zone, Unwrap(parse_timestamp(StampA))), 1)
                EXCEPT !.status = "Completed",
                       !.completed_at = Some(ClockStart - HistoryCap * 3600)]
        ELSE ManualOperation(k, "p2", ClockStart - k * 3600)]

NoLog == [p \in ProfileIds |-> None]
NoSchedules == [p \in ProfileIds |-> [schedule |-> None]]
DoneCalc == [schedule |-> [enabled |-> FALSE, frequency |-> Daily, time |-> Str0900,
                           last_run |-> None, next_run |-> None],
             done |-> TRUE, result |-> None]

\* an empty store and no log yet, or a full history and the log of its oldest run
Init ==
    /\ tz \in Zones
    /\ now = ClockStart
    /\ \/ /\ config = [profiles |-> NoSchedules, backup_operations |-> <<>>]
          /\ logs = NoLog
       \/ /\ config = [profiles |-> NoSchedules, backup_operations |-> FullHistory(tz)]
          /\ logs = [NoLog EXCEPT ![LogWriter] = Some(<<StartLine(StampA), CompleteLine>>)]
    /\ rc = IdleRc
    /\ last = NoLast
    /\ manual_runs = 0
    /\ calc = DoneCalc

Idle == rc.pc = "idle"

\* time passes
Tick ==
    /\ now < ClockStart + MaxTicks * ClockStep
    /\ now' = now + ClockStep
    /\ UNCHANGED <<tz, config, logs, rc, last, manual_runs, calc>>

\* the runner script appends a line to the log of its profile
AppendLine(line) ==
    /\ Idle
    /\ LET old == IF logs[LogWriter] = None THEN <<>> ELSE Unwrap(logs[LogWriter])
       IN  /\ Len(old) < MaxLogLen
           /\ logs' = [logs EXCEPT ![LogWriter] = Some(Append(old, line))]
    /\ last' = NoLast
    /\ UNCHANGED <<tz, now, config, rc, manual_runs, calc>>

\* schedule.rs schedule_backup(profile_id, schedule); os_ok is the outcome of
\* create_simple_os_schedule; Ok(()) when ScheduleBackupOk
ScheduleBackupOk(profile_id, schedule, os_ok) ==
    /\ profile_id \in DOMAIN config.profiles
    /\ simple_next_run(tz, now, schedule).ok
    /\ os_ok

ScheduleBackup(profile_id, schedule, os_ok) ==
    /\ Idle
    /\ config' = IF ScheduleBackupOk(profile_id, schedule, os_ok)
                 THEN [config EXCEPT !.profiles[profile_id].schedule =
                          Some([schedule EXCEPT !.next_run =
                                   simple_next_run(tz, now, schedule).next_run])]
                 ELSE config
    /\ last' = NoLast
    /\ UNCHANGED <<tz, now, logs, rc, manual_runs, calc>>

\* schedule.rs unschedule_backup(profile_id)
UnscheduleBackup(profile_id) ==
    /\ Idle
    /\ config' = IF profile_id \in DOMAIN config.profiles
                 THEN [config EXCEPT !.profiles[profile_id].schedule = None]
                 ELSE config
    /\ last' = NoLast
    /\ UNCHANGED <<tz, now, logs, rc, manual_runs, calc>>

\* rclone.rs backup_run: a manual run of the profile ends and is saved
SaveBackupOperation(profile_id) ==
    /\ Idle
    /\ manual_runs < MaxManual
    /\ manual_runs' = manual_runs + 1
    /\ config' = save_backup_operation(config,
                    ManualOperation(FreshId(config.backup_operations), profile_id, now))
    /\ last' = NoLast
    /\ UNCHANGED <<tz, now, logs, rc, calc>>

\* config.rs clear_backup_operations
ClearBackupOperations ==
    /\ Idle
    /\ config' = [config EXCEPT !.backup_operations = <<>>]
    /\ last' = NoLast
    /\ UNCHANGED <<tz, now, logs, rc, manual_runs, calc>>

\* what `last` keeps of a reconciliation that returned Ok(result): whether it
\* repeated the call before it, whether it left the history as it found it,
\* and the last run it closed
SyncResult(profile_id, result, repeat, unchanged, r) ==
    [cmd |-> "sync", profile_id |-> profile_id, result |-> result,
     repeat |-> repeat, unchanged |-> unchanged, closed |-> r.closed,
     last_started |-> r.last_started, last_t |-> r.last_t]

\* this call follows a reconciliation of the same profile with no write to the
\* log or to the store in between (every writer and every new call resets `last`)
Repeats(profile_id) == last.cmd = "sync" /\ last.profile_id = profile_id

\* a missing log file reported as an error
SyncNoLogFile_is_error(profile_id) ==
    /\ Idle
    /\ logs[profile_id] = None
    /\ last' = [cmd |-> "error", profile_id |-> profile_id]
    /\ UNCHANGED <<tz, now, config, logs, rc, manual_runs, calc>>

\* sync_scheduled_backup_logs(profile_id), lines 431-438: no log file, Ok(0)
SyncNoLogFile(profile_id) ==
    /\ Idle
    /\ logs[profile_id] = None
    /\ last' = SyncResult(profile_id, 0, Repeats(profile_id), TRUE,
                          [closed |-> 0, last_started |-> None, last_t |-> None])
    /\ UNCHANGED <<tz, now, config, logs, rc, manual_runs, calc>>

\* lines 440-466: load the history of the profile, read the log
SyncBegin(profile_id) ==
    /\ Idle
    /\ logs[profile_id] # None
    /\ rc' = [pc |-> "scan", profile_id |-> profile_id,
              existing_operations |-> FilterProfile(config.backup_operations, profile_id),
              lines |-> Unwrap(logs[profile_id]), i |-> 1,
              current_operation |-> None, operations_created |-> 0,
              repeat |-> Repeats(profile_id),
              history_before |-> config.backup_operations,
              closed |-> 0, last_started |-> None, last_t |-> None]
    /\ last' = NoLast
    /\ UNCHANGED <<tz, now, config, logs, manual_runs, calc>>

\* lines 468-552: one line of the log
SyncLine ==
    /\ rc.pc = "scan"
    /\ rc.i <= Len(rc.lines)
    /\ LET line == rc.lines[rc.i]
           r    == [rc EXCEPT !.i = @ + 1]
       IN  CASE start_regex(line) ->
                  LET res == OpenOperation(config, tz, now, r, parse_timestamp(line.stamp), rc.i)
                  IN  rc' = res.rc /\ config' = res.config
             [] complete_regex(line) ->
                  IF rc.current_operation = None
                  THEN rc' = r /\ UNCHANGED config
                  ELSE LET res == CloseOperation(config, tz, now, r, Unwrap(rc.current_operation))
                       IN  rc' = res.rc /\ config' = res.config
             [] OTHER ->
                  IF rc.current_operation = None
                  THEN rc' = r /\ UNCHANGED config
                  ELSE /\ rc' = [r EXCEPT !.current_operation =
                                     Some(Accumulate(Unwrap(rc.current_operation), line))]
                       /\ UNCHANGED config
    /\ UNCHANGED <<tz, now, logs, last, manual_runs, calc>>

\* lines 554-579: close the operation left open, return the count
SyncEnd ==
    /\ rc.pc = "scan"
    /\ rc.i > Len(rc.lines)
    /\ LET res == IF rc.current_operation = None
                  THEN [config |-> config, rc |-> rc]
                  ELSE CloseOperation(config, tz, now, rc, Unwrap(rc.current_operation))
       IN  /\ config' = res.config
           /\ last' = SyncResult(rc.profile_id, res.rc.operations_created, rc.repeat,
                                 res.config.backup_operations = rc.history_before, res.rc)
    /\ rc' = IdleRc
    /\ UNCHANGED <<tz, now, logs, manual_runs, calc>>

\* the history and its reconciliation with the log
Next ==
    \/ Tick
    \/ \E line \in LineAlphabet : AppendLine(line)
    \/ \E p \in ProfileIds : SaveBackupOperation(p)
    \/ \E p \in ProfileIds : SyncNoLogFile(p)
    \/ \E p \in ProfileIds : SyncBegin(p)
    \/ SyncLine
    \/ SyncEnd

Spec == Init /\ [][Next]_vars

(***************************************************************************)
(* The schedule of a profile: schedule_backup, unschedule_backup and the   *)
(* reconciliation of a log that is already written.                        *)
(***************************************************************************)
\* the schedules the UI sends to schedule_backup
ScheduleInputs ==
    [enabled : BOOLEAN, frequency : {Daily, Weekly(3), Monthly(31)},
     time : {Str0900, StrJunk}, last_run : {None}, next_run : {None}]

\* the logs the runner script has written: two runs with the second still in
\* progress, one finished run, a completion marker alone
WrittenLogs == {
    <<StartLine(StampA), CompleteLine, StartLine(StampC)>>,
    <<StartLine(StampB), OtherLine, CompleteLine>>,
    <<CompleteLine>> }

InitSched ==
    /\ tz \in Zones
    /\ now = ClockStart
    /\ config = [profiles |-> NoSchedules, backup_operations |-> <<>>]
    /\ logs \in {NoLog} \cup { [NoLog EXCEPT ![LogWriter] = Some(l)] : l \in WrittenLogs }
    /\ rc = IdleRc
    /\ last = NoLast
    /\ manual_runs = 0
    /\ calc = DoneCalc

NextSched ==
    \/ Tick
    \/ \E p \in {LogWriter, UnknownId}, sch \in ScheduleInputs, os_ok \in BOOLEAN :
          ScheduleBackup(p, sch, os_ok)
    \/ \E p \in {LogWriter, UnknownId} : UnscheduleBackup(p)
    \/ \E p \in ProfileIds : SyncNoLogFile(p)
    \/ \E p \in ProfileIds : SyncBegin(p)
    \/ SyncLine
    \/ SyncEnd

SpecSched == InitSched /\ [][NextSched]_vars

(***************************************************************************)
(* The scan of a log on its own: every log of at most MaxLogLen lines over *)
(* ScanAlphabet, reconciled against an empty history or one that holds a   *)
(* run of the profile and a run of another profile, for a profile with no  *)
(* schedule, an enabled one, or one whose time update_profile stored       *)
(* without parsing it.                                                     *)
(***************************************************************************)
ScanStamps == {StampA, StampB, StampD, StampBad, StampIso}
ScanAlphabet == {StartLine(st) : st \in ScanStamps} \cup {CompleteLine}
ScanLogs == UNION { [1..n -> ScanAlphabet] : n \in 0..MaxLogLen }

\* a record of the profile for the run of StampA and a record of the other
\* profile that started when the run of StampD did
ScanHistory(zone) ==
    << ManualOperation(1, LogWriter, start_time_utc(zone, Unwrap(parse_timestamp(StampA)))),
       ManualOperation(2, "p2", start_time_utc(zone, Unwrap(parse_timestamp(StampD)))) >>

ScanSchedules ==
    {None} \cup { Some([enabled |-> TRUE, frequency |-> Daily, time |-> t,
                        last_run |-> None, next_run |-> None]) : t \in {Str0900, StrJunk} }

InitScan ==
    /\ tz \in Zones
    /\ now = ClockStart
    /\ \E sch \in ScanSchedules, h \in {<<>>, ScanHistory(tz)} :
          config = [profiles |-> [NoSchedules EXCEPT ![LogWriter].schedule = sch],
                    backup_operations |-> h]
    /\ logs \in {NoLog} \cup { [NoLog EXCEPT ![LogWriter] = Some(l)] : l \in ScanLogs }
    /\ rc = IdleRc
    /\ last = NoLast
    /\ manual_runs = 0
    /\ calc = DoneCalc

NextScan ==
    \/ Tick
    \/ \E p \in ProfileIds : SyncNoLogFile(p)
    \/ \E p \in ProfileIds : SyncBegin(p)
    \/ SyncLine
    \/ SyncEnd

SpecScan == InitScan /\ [][NextScan]_vars

(***************************************************************************)
(* Every command that writes the store, one at a time, on an empty history *)
(* or a full one: manual runs, clear_backup_operations, schedule_backup,   *)
(* unschedule_backup, and the reconciliation of a log of two runs (the     *)
(* first of them is the oldest record of the full history).                *)
(***************************************************************************)
StoreSchedules ==
    [enabled : BOOLEAN, frequency : {Daily}, time : {Str0900},
     last_run : {None}, next_run : {None}]

StoreLog == <<StartLine(StampA), CompleteLine, StartLine(StampC)>>

InitStore ==
    /\ tz \in Zones
    /\ now = ClockStart
    /\ \E h \in {<<>>, FullHistory(tz)} :
          config = [profiles |-> NoSchedules, backup_operations |-> h]
    /\ logs = [NoLog EXCEPT ![LogWriter] = Some(StoreLog)]
    /\ rc = IdleRc
    /\ last = NoLast
    /\ manual_runs = 0
    /\ calc = DoneCalc

NextStore ==
    \/ Tick
    \/ \E p \in ProfileIds : SaveBackupOperation(p)
    \/ ClearBackupOperations
    \/ \E sch \in StoreSchedules, os_ok \in BOOLEAN : ScheduleBackup(LogWriter, sch, os_ok)
    \/ UnscheduleBackup(LogWriter)
    \/ SyncBegin(LogWriter)
    \/ SyncLine
    \/ SyncEnd

SpecStore == InitStore /\ [][NextStore]_vars

(***************************************************************************)
(* A log that grows: the runner script appends lines while reconciliations *)
(* of the profile come and go.  The profile has no schedule, an enabled    *)
(* one, a disabled one that still has the last_run and next_run of the     *)
(* time it was enabled, or is no longer in config.profiles (delete_profile *)
(* leaves the log file and the records).                                   *)
(***************************************************************************)
GrowAlphabet ==
    { StartLine(StampA), StartLine(StampC), FilesLine(<<"1", "0">>), CompleteLine }

EnabledSchedule ==
    [enabled |-> TRUE, frequency |-> Daily, time |-> Str0900,
     last_run |-> None, next_run |-> None]

DisabledSchedule ==
    [enabled |-> FALSE, frequency |-> Daily, time |-> Str0900,
     last_run |-> Some(ClockStart - SecondsPerDay),
     next_run |-> Some(ClockStart + SecondsPerDay)]

GrowProfiles ==
    { [NoSchedules EXCEPT ![LogWriter].schedule = sch] :
        sch \in {None, Some(EnabledSchedule), Some(DisabledSchedule)} }
      \cup { [p \in ProfileIds \ {LogWriter} |-> [schedule |-> Some(EnabledSchedule)]] }

InitGrow ==
    /\ tz \in Zones
    /\ now = ClockStart
    /\ \E profiles \in GrowProfiles :
          config = [profiles |-> profiles, backup_operations |-> <<>>]
    /\ logs = NoLog
    /\ rc = IdleRc
    /\ last = NoLast
    /\ manual_runs = 0
    /\ calc = DoneCalc

NextGrow ==
    \/ Tick
    \/ \E line \in GrowAlphabet : AppendLine(line)
    \/ SyncNoLogFile(LogWriter)
    \/ SyncBegin(LogWriter)
    \/ SyncLine
    \/ SyncEnd

SpecGrow == InitGrow /\ [][NextGrow]_vars

(***************************************************************************)
(* The byte counts of a run: a log of one run with one line of rclone's    *)
(* statistics, for every size of SizeNumbers x SizeSeparators x SizeUnits. *)
(***************************************************************************)
SizeNumbers == { <<"4", "2">>, <<"5", "0", "0">>, <<"2">>,
                 <<"1", ",", "0", "2", "4">>, <<"1", ".", "5", "0">> }
SizeSeparators == { <<>>, <<" ">> }
DecimalUnits == << <<"B">>, <<"K", "B">>, <<"M", "B">>, <<"G", "B">>, <<"T", "B">> >>
BinaryUnits == << <<"B">>, <<"K", "i", "B">>, <<"M", "i", "B">>, <<"G", "i", "B">>,
                  <<"T", "i", "B">> >>
SizeUnits == { DecimalUnits[k] : k \in 1..5 } \cup { BinaryUnits[k] : k \in 1..5 }

ByteLines == { BytesLine(n, sep, u) : n \in SizeNumbers, sep \in SizeSeparators, u \in SizeUnits }

BytesLogs == { <<StartLine(StampA), l>> : l \in ByteLines }
                \cup { <<StartLine(StampA), l, CompleteLine>> : l \in ByteLines }

InitBytes ==
    /\ tz \in Zones
    /\ now = ClockStart
    /\ config = [profiles |-> NoSchedules, backup_operations |-> <<>>]
    /\ logs \in { [NoLog EXCEPT ![LogWriter] = Some(l)] : l \in BytesLogs }
    /\ rc = IdleRc
    /\ last = NoLast
    /\ manual_runs = 0
    /\ calc = DoneCalc

NextBytes ==
    \/ SyncBegin(LogWriter)
    \/ SyncLine
    \/ SyncEnd

SpecBytes == InitBytes /\ [][NextBytes]_vars

(***************************************************************************)
(* The statistics of a run: every log of at most MaxStatLen lines over     *)
(* markers, file-count lines, byte-count lines and other lines.            *)
(***************************************************************************)
MaxStatLen == 4

StatAlphabet ==
    { StartLine(StampA), CompleteLine, OtherLine,
      FilesLine(<<"5">>), FilesLine(<<"1", "0">>),
      BytesLine(<<"2">>, <<" ">>, <<"K", "i", "B">>),
      BytesLine(<<"5", "0", "0">>, <<>>, <<"M", "B">>) }

StatLogs == UNION { [1..n -> StatAlphabet] : n \in 0..MaxStatLen }

InitStats ==
    /\ tz \in Zones
    /\ now = ClockStart
    /\ config = [profiles |-> NoSchedules, backup_operations |-> <<>>]
    /\ logs \in { [NoLog EXCEPT ![LogWriter] = Some(l)] : l \in StatLogs }
    /\ rc = IdleRc
    /\ last = NoLast
    /\ manual_runs = 0
    /\ calc = DoneCalc

NextStats ==
    \/ SyncBegin(LogWriter)
    \/ SyncLine
    \/ SyncEnd

SpecStats == InitStats /\ [][NextStats]_vars

(***************************************************************************)
(* Reconciliation with a store that may fail.  load_config and save_config *)
(* return Err when config.json cannot be read or written; every call of    *)
(* them in sync_scheduled_backup_logs is followed by `?`, so the command   *)
(* returns the error at once.  The log is written before the first call    *)
(* and does not change.                                                    *)
(***************************************************************************)
\* the command in which the store fails while a run is being closed
FailStages == {"save_backup_operation", "update_schedule_after_backup"}

\* lines 508-529 and 556-575 cut short by an Err: the store after a close that
\* fails in save_backup_operation (nothing is renamed over config.json) or in
\* update_schedule_after_backup (the operation, if new, is already saved)
CloseFails(cfg, r, op, t, stage) ==
    LET closed == [op EXCEPT !.status = "Completed", !.completed_at = Some(t)]
    IN  IF stage = "save_backup_operation"
           \/ already_saved(r.existing_operations, closed.started_at)
        THEN cfg
        ELSE save_backup_operation(cfg, closed)

\* what `last` keeps of a command that returned Err
SyncError(profile_id) == [cmd |-> "error", profile_id |-> profile_id]

\* lines 441 and 450: load_config or read_to_string fails, Err before the scan
SyncLoadFails(profile_id) ==
    /\ Idle
    /\ logs[profile_id] # None
    /\ last' = SyncError(profile_id)
    /\ UNCHANGED <<tz, now, config, logs, rc, manual_runs, calc>>

\* lines 521, 529, 567, 575: the store fails while the open run is closed, at
\* a completion marker or at the end of the log; save_backup_operation is
\* called only for a run that is no duplicate
SyncFails(stage) ==
    /\ rc.pc = "scan"
    /\ rc.current_operation # None
    /\ IF rc.i > Len(rc.lines) THEN TRUE ELSE complete_regex(rc.lines[rc.i])
    /\ stage = "save_backup_operation" =>
           ~already_saved(rc.existing_operations, Unwrap(rc.current_operation).started_at)
    /\ config' = CloseFails(config, rc, Unwrap(rc.current_operation), now, stage)
    /\ last' = SyncError(rc.profile_id)
    /\ rc' = IdleRc
    /\ UNCHANGED <<tz, now, logs, manual_runs, calc>>

\* the logs: runs 45 and 60 seconds apart, finished or cut off
FailAlphabet == {StartLine(StampA), StartLine(StampB), StartLine(StampD), CompleteLine}
FailLogs == UNION { [1..n -> FailAlphabet] : n \in 0..MaxLogLen }

\* no record of the profile yet; another profile may have one
FailHistory(zone) ==
    << ManualOperation(1, "p2", start_time_utc(zone, Unwrap(parse_timestamp(StampD)))) >>

FailSchedules ==
    {None, Some([enabled |-> TRUE, frequency |-> Daily, time |-> Str0900,
                 last_run |-> None, next_run |-> None])}

InitFail ==
    /\ tz \in Zones
    /\ now = ClockStart
    /\ \E sch \in FailSchedules, h \in {<<>>, FailHistory(tz)} :
          config = [profiles |-> [NoSchedules EXCEPT ![LogWriter].schedule = sch],
                    backup_operations |-> h]
    /\ logs \in { [NoLog EXCEPT ![LogWriter] = Some(l)] : l \in FailLogs }
    /\ rc = IdleRc
    /\ last = NoLast
    /\ manual_runs = 0
    /\ calc = DoneCalc

NextFail ==
    \/ Tick
    \/ SyncLoadFails(LogWriter)
    \/ SyncBegin(LogWriter)
    \/ SyncLine
    \/ \E stage \in FailStages : SyncFails(stage)
    \/ SyncEnd

SpecFail == InitFail /\ [][NextFail]_vars

(***************************************************************************)
(* Commands in flight at the same time.  Each command is a task of the     *)
(* async runtime; it reaches the store only through load_config (a read of *)
(* config.json) and save_config (a rename over it), and every change it    *)
(* makes is a load, a change of its own copy, and a save.  A step of a     *)
(* call is one load or one save.  One reconciliation per profile is in     *)
(* flight, and one other command.  Here rc maps each call to its locals.   *)
(***************************************************************************)
Calls == {"r1", "r2", "c"}

\* the call of each reconciliation, and the commands the third call may be
ConcSync == [r1 |-> [kind |-> "sync", profile_id |-> "p1"],
             r2 |-> [kind |-> "sync", profile_id |-> "p2"]]

ConcSchedule == [enabled |-> TRUE, frequency |-> Daily, time |-> Str0900,
                 last_run |-> None, next_run |-> None]

ConcCommands ==
    { [kind |-> "save_backup_operation", profile_id |-> "p1"],
      [kind |-> "schedule_backup", profile_id |-> "p1"],
      [kind |-> "unschedule_backup", profile_id |-> "p1"],
      [kind |-> "schedule_backup", profile_id |-> UnknownId] }

\* the logs: two runs of p1, the second still in progress, and a run of p2
ConcLogs == [p1 |-> Some(<<StartLine(StampA), CompleteLine, StartLine(StampD)>>),
             p2 |-> Some(<<StartLine(StampC), CompleteLine>>)]

\* the number that stands for the uuid of the k-th operation of a call
ConcId(call, k) == (CASE call = "r1" -> 10 [] call = "r2" -> 20 [] call = "c" -> 30) + k

\* lines 468-576 without the store: the runs that the scan of `lines` closes,
\* in file order (the start of each and the line of its start marker)
ClosedRuns(zone, lines) ==
    LET F[k \in 0..Len(lines)] ==
            IF k = 0 THEN [cur |-> None, runs |-> <<>>]
            ELSE IF start_regex(lines[k])
                 THEN IF parse_timestamp(lines[k].stamp) = None THEN F[k - 1]
                      ELSE [F[k - 1] EXCEPT !.cur =
                              Some([started_at |-> start_time_utc(zone,
                                        Unwrap(parse_timestamp(lines[k].stamp))),
                                    start_line |-> k])]
                 ELSE IF complete_regex(lines[k]) /\ F[k - 1].cur # None
                      THEN [cur |-> None, runs |-> Append(F[k - 1].runs, Unwrap(F[k - 1].cur))]
                      ELSE F[k - 1]
    IN  IF F[Len(lines)].cur = None THEN F[Len(lines)].runs
        ELSE Append(F[Len(lines)].runs, Unwrap(F[Len(lines)].cur))

\* the changes of the store a reconciliation asks for, in order: for each
\* closed run save_backup_operation unless the snapshot has the run, then
\* update_schedule_after_run
SyncChanges(call, zone, t, profile_id, existing_operations, runs) ==
    LET G[k \in 0..Len(runs)] ==
            IF k = 0 THEN <<>>
            ELSE G[k - 1]
                 \o (IF already_saved(existing_operations, runs[k].started_at) THEN <<>>
                     ELSE << [kind |-> "save_backup_operation",
                              operation |->
                                 [NewOperation(ConcId(call, k), profile_id,
                                               runs[k].started_at, runs[k].start_line)
                                    EXCEPT !.status = "Completed",
                                           !.completed_at = Some(t)]] >>)
                 \o << [kind |-> "update_schedule_after_backup", profile_id |-> profile_id,
                        backup_started_at |-> runs[k].started_at] >>
    IN  G[Len(runs)]

\* the changes of the store that a command other than a reconciliation asks for
CommandChanges(call, zone, t, cmd) ==
    IF cmd.kind = "save_backup_operation"
    THEN << [kind |-> "save_backup_operation",
             operation |-> ManualOperation(ConcId(call, 1), cmd.profile_id, t)] >>
    ELSE IF cmd.kind = "schedule_backup"
         THEN << [kind |-> "schedule_backup", profile_id |-> cmd.profile_id,
                  schedule |-> ConcSchedule] >>
         ELSE << [kind |-> "unschedule_backup", profile_id |-> cmd.profile_id] >>

\* the change applied to the copy of the store that the call loaded
Changed(cfg, zone, t, change) ==
    CASE change.kind = "save_backup_operation" ->
            save_backup_operation(cfg, change.operation)
      [] change.kind = "update_schedule_after_backup" ->
            update_schedule_after_backup(cfg, zone, t, change.profile_id,
                                         change.backup_started_at)
      [] change.kind = "schedule_backup" ->
            IF change.profile_id \in DOMAIN cfg.profiles
               /\ simple_next_run(zone, t, change.schedule).ok
            THEN [cfg EXCEPT !.profiles[change.profile_id].schedule =
                     Some([change.schedule EXCEPT !.next_run =
                              simple_next_run(zone, t, change.schedule).next_run])]
            ELSE cfg
      [] change.kind = "unschedule_backup" ->
            IF change.profile_id \in DOMAIN cfg.profiles
            THEN [cfg EXCEPT !.profiles[change.profile_id].schedule = None]
            ELSE cfg

\* whether the command goes on to save_config: update_schedule_after_backup
\* saves only `if updated`, schedule_backup and unschedule_backup only for a
\* profile that exists
Saves(cfg, zone, t, change) ==
    change.kind = "save_backup_operation" \/ Changed(cfg, zone, t, change) # cfg

ConcLocals(cmd) ==
    [cmd |-> cmd, pc |-> "start", changes |-> <<>>, loaded |-> None,
     saved |-> {}, last_started |-> None]

InitConc ==
    /\ tz \in Zones
    /\ now = ClockStart
    /\ config = [profiles |-> [p \in ProfileIds |-> [schedule |-> Some(ConcSchedule)]],
                 backup_operations |-> <<>>]
    /\ logs = ConcLogs
    /\ \E cmd \in ConcCommands :
          rc = [call \in Calls |-> ConcLocals(IF call = "c" THEN cmd ELSE ConcSync[call])]
    /\ last = NoLast
    /\ manual_runs = 0
    /\ calc = DoneCalc

\* the call starts: a reconciliation loads the history of its profile and
\* reads its log (lines 440-466); another command has one change to make
ConcBegin(call) ==
    /\ rc[call].pc = "start"
    /\ LET cmd     == rc[call].cmd
           runs    == ClosedRuns(tz, Unwrap(logs[cmd.profile_id]))
           changes == IF cmd.kind = "sync"
                      THEN SyncChanges(call, tz, now, cmd.profile_id,
                               FilterProfile(config.backup_operations, cmd.profile_id), runs)
                      ELSE CommandChanges(call, tz, now, cmd)
       IN  rc' = [rc EXCEPT ![call].pc = "run", ![call].changes = changes]
    /\ UNCHANGED <<tz, now, config, logs, last, manual_runs, calc>>

\* load_config() of the next change
ConcLoad(call) ==
    /\ rc[call].pc = "run"
    /\ rc[call].changes # <<>>
    /\ rc[call].loaded = None
    /\ rc' = [rc EXCEPT ![call].loaded = Some(config)]
    /\ UNCHANGED <<tz, now, config, logs, last, manual_runs, calc>>

\* the change is made to the loaded copy and save_config(&config) writes it
ConcSave(call) ==
    /\ rc[call].pc = "run"
    /\ rc[call].loaded # None
    /\ LET change == Head(rc[call].changes)
           cfg    == Unwrap(rc[call].loaded)
       IN  /\ config' = IF Saves(cfg, tz, now, change)
                        THEN Changed(cfg, tz, now, change) ELSE config
           /\ rc' = [rc EXCEPT
                       ![call].changes = Tail(@),
                       ![call].loaded = None,
                       ![call].saved = IF change.kind = "save_backup_operation"
                                       THEN @ \cup {change.operation.id} ELSE @,
                       ![call].last_started =
                            IF change.kind = "update_schedule_after_backup"
                            THEN Some(change.backup_started_at) ELSE @]
    /\ UNCHANGED <<tz, now, logs, last, manual_runs, calc>>

\* the call returns; a reconciliation returns the number it saved
ConcReturn(call) ==
    /\ rc[call].pc = "run"
    /\ rc[call].changes = <<>>
    /\ rc' = [rc EXCEPT ![call].pc = "done"]
    /\ UNCHANGED <<tz, now, config, logs, last, manual_runs, calc>>

NextConc ==
    \/ \E call \in Calls : ConcBegin(call)
    \/ \E call \in Calls : ConcLoad(call)
    \/ \E call \in Calls : ConcSave(call)
    \/ \E call \in Calls : ConcReturn(call)

SpecConc == InitConc /\ [][NextConc]_vars

(***************************************************************************)
(* Properties of the reconciliation (checked under Spec).                  *)
(***************************************************************************)
History == config.backup_operations

\* C1: when sync_scheduled_backup_logs is called twice in sequence for the same
\* profile, with no change to the log and no other writer of the store in
\* between, the second call returns 0 and leaves the history unchanged.
C1_SecondSyncAddsNothing ==
    (last.cmd = "sync" /\ last.repeat) => (last.result = 0 /\ last.unchanged)

\* C2: the history never holds, at the same time, two records derived from the
\* same run (the same start-marker line of the log of the same profile).
C2_OneRecordPerRun ==
    \A k \in DOMAIN History : \A l \in DOMAIN History :
        (k < l /\ History[k].start_line > 0 /\ History[k].profile_id = History[l].profile_id)
            => History[k].start_line # History[l].start_line

\* a repeated reconciliation closed two runs, found both in the history and
\* added nothing
C2_Witness ==
    /\ last.cmd = "sync"
    /\ last.repeat
    /\ last.closed = 2
    /\ last.result = 0
    /\ Cardinality({k \in DOMAIN History : History[k].start_line > 0}) = 2

Range(f) == { f[k] : k \in DOMAIN f }

\* C11: after every save_backup_operation the history holds at most 100
\* entries, the operation just saved is at the front and the entries it had
\* before follow in their order.
C11_SavedAtFrontWithinCap ==
    [][ History' # History =>
          /\ Len(History') <= HistoryCap
          /\ History'[1] \notin Range(History)
          /\ \A k \in 2..Len(History') : History'[k] = History[k - 1]
      ]_vars

\* a manual run of p1 was saved to the full history
C11_Witness ==
    /\ Len(History) = HistoryCap
    /\ History[1].profile_id = LogWriter
    /\ History[1].start_line = 0
    /\ History[HistoryCap].profile_id # LogWriter

\* C12: when an operation is appended to a full history, the entry evicted
\* has the oldest started_at: no entry that stays is older than it.
C12_EvictsOldestStartedAt ==
    [][ (History' # History /\ Len(History) = HistoryCap) =>
          \A e \in Range(History) \ Range(History') :
              \A k \in DOMAIN History' : e.started_at <= History'[k].started_at
      ]_vars

(***************************************************************************)
(* Properties of the scan (checked under SpecScan).  A run is closed by    *)
(* the step that reads a completion marker, or the end of the log, while   *)
(* an operation is open.                                                   *)
(***************************************************************************)
ScanOpen == rc.pc = "scan" /\ rc.current_operation # None
AtCompletion == ScanOpen /\ rc.i <= Len(rc.lines) /\ complete_regex(rc.lines[rc.i])
AtEndOfLog == ScanOpen /\ rc.i > Len(rc.lines)
ClosingStep == (AtCompletion \/ AtEndOfLog) /\ rc' # rc
OpenRun == Unwrap(rc.current_operation)

\* some operation of `ops` is of the profile being reconciled and started
\* less than 60 seconds before or after the open run
SameRunIn(ops) ==
    \E k \in DOMAIN ops :
        /\ ops[k].profile_id = rc.profile_id
        /\ ops[k].started_at - OpenRun.started_at \in -59..59

ImplicitClose == AtEndOfLog /\ rc' # rc

\* C14: if the log ends while an operation is open, the operation is closed at
\* the current instant: status Completed, completed_at = now; if no record of
\* the snapshot is within 60 seconds it is saved at the front of the history
\* and counted, else it is dropped and not counted; in either case an enabled
\* schedule of the profile gets the run's started_at as last_run and the
\* calculator's next_run.
C14_ImplicitCloseAtEndOfLog ==
    [][ ImplicitClose =>
          LET closed == [OpenRun EXCEPT !.status = "Completed", !.completed_at = Some(now)]
              sched  == config.profiles[rc.profile_id].schedule
              sched2 == config'.profiles[rc.profile_id].schedule
          IN  /\ last'.cmd = "sync"
              /\ IF SameRunIn(rc.history_before)
                 THEN History' = History /\ last'.result = rc.operations_created
                 ELSE History' = <<closed>> \o History /\ last'.result = rc.operations_created + 1
              /\ (sched # None /\ Unwrap(sched).enabled) =>
                    /\ Unwrap(sched2).last_run = Some(OpenRun.started_at)
                    /\ Unwrap(sched2).next_run = calculate_next_run(tz, now, Unwrap(sched))
      ]_vars

\* after the clock moved, a reconciliation closed the run that the last line
\* of the log starts, saved it as completed then, and set last_run to it
C14_Witness ==
    /\ last.cmd = "sync" /\ last.profile_id = LogWriter /\ last.result = 1
    /\ now > ClockStart
    /\ History # <<>>
    /\ History[1].start_line = Len(Unwrap(logs[LogWriter]))
    /\ History[1].status = "Completed"
    /\ History[1].completed_at = Some(now)
    /\ config.profiles[LogWriter].schedule # None
    /\ Unwrap(config.profiles[LogWriter].schedule).last_run = Some(History[1].started_at)
    /\ Unwrap(config.profiles[LogWriter].schedule).next_run # None

\* the step that reads a start-marker line whose time stamp cannot be parsed
GarbledStartStep ==
    /\ rc.pc = "scan" /\ rc.i <= Len(rc.lines) /\ rc' # rc
    /\ rc.lines[rc.i] \in {StartLine(StampBad), StartLine(StampIso)}

\* every record made from the log was opened by a start marker with a time
\* stamp that is a date
NoneFabricated ==
    \A k \in DOMAIN History :
        History[k].start_line > 0 =>
            Unwrap(logs[History[k].profile_id])[History[k].start_line]
                \in {StartLine(StampA), StartLine(StampB), StartLine(StampD)}

\* C15 as stated: a start-marker line whose time stamp cannot be parsed opens
\* no operation, leaves an open operation as it is, and the scan goes on.
C15_Original ==
    [][ GarbledStartStep =>
          /\ rc'.current_operation = rc.current_operation
          /\ rc'.i = rc.i + 1
          /\ config' = config
      ]_vars

\* C15 amended: such a line opens no operation, saves nothing, and the scan
\* goes on; an open operation stays open with its fields unchanged, except
\* that a line whose time stamp has not even the shape the start pattern asks
\* for is appended to its log_output like any other line; no record is ever
\* made from such a line.
C15_GarbledStartOpensNothing ==
    [][ /\ GarbledStartStep =>
             /\ rc'.i = rc.i + 1
             /\ config' = config
             /\ rc'.current_operation =
                   IF rc.current_operation = None \/ rc.lines[rc.i] = StartLine(StampBad)
                   THEN rc.current_operation
                   ELSE Some([OpenRun EXCEPT !.log_output = Append(@, rc.lines[rc.i])])
        /\ NoneFabricated'
      ]_vars

\* the run opened by line 1 was closed by the completion marker of line 3,
\* past the garbled start marker of line 2, and saved
C15_Witness ==
    /\ History # <<>>
    /\ History[1].start_line = 1
    /\ Len(Unwrap(logs[LogWriter])) = 3
    /\ Unwrap(logs[LogWriter])[2] = StartLine(StampBad)
    /\ Unwrap(logs[LogWriter])[3] = CompleteLine
    /\ History[1].log_output = <<>>

\* the step on which the call returns
ReturnStep == rc.pc = "scan" /\ rc.i > Len(rc.lines) /\ rc' # rc

\* C16: the value returned is the number of operations the call appended to
\* the history (the records that were not there when the call began), one
\* for each closed run that was not a duplicate.
C16_ReturnsNumberAppended ==
    [][ ReturnStep =>
          /\ last'.result = Cardinality(Range(History') \ Range(rc.history_before))
          /\ last'.result = Len(History') - Len(rc.history_before)
          /\ last'.result <= last'.closed
      ]_vars

\* a call closed two runs, one a duplicate and one new, and returned 1
C16_Witness ==
    /\ last.cmd = "sync" /\ last.closed = 2 /\ last.result = 1
    /\ Len(History) = 3

\* C17: when the log file of the profile does not exist the call returns
\* Ok(0) and leaves the store (history and schedules) as it was.
C17_NoLogFileIsZero ==
    [][ \A p \in ProfileIds :
          SyncNoLogFile(p) => (last'.cmd = "sync" /\ last'.result = 0 /\ config' = config)
      ]_vars

\* a call for the profile, which has a history and a schedule but no log file,
\* returned 0
C17_Witness ==
    /\ last.cmd = "sync" /\ last.profile_id = LogWriter /\ last.result = 0
    /\ logs[LogWriter] = None
    /\ History # <<>>
    /\ config.profiles[LogWriter].schedule # None

\* C18: no step stores, or stores again, a schedule whose time does not
\* parse as HH:MM: the computation of its next_run fails and the call with it.
C18_InvalidTimeStoresNothing ==
    [][ \A p \in ProfileIds :
          LET sch == config'.profiles[p].schedule
          IN  (config'.profiles[p] # config.profiles[p] /\ sch # None)
                  => parse_time(Unwrap(sch).time) # None
      ]_vars

(***************************************************************************)
(* Properties of the records of the history (checked under SpecStore).     *)
(***************************************************************************)
\* the step pushes the last record of a full history out: a record is put in
\* front of the first 99
CapEviction ==
    /\ Len(History) = HistoryCap
    /\ Len(History') = HistoryCap
    /\ SubSeq(History', 2, HistoryCap) = SubSeq(History, 1, HistoryCap - 1)

\* the record at place k of the history is at place k or k + 1 afterwards,
\* with every field as it was
KeptAsIs(k) ==
    \/ k <= Len(History') /\ History'[k] = History[k]
    \/ k + 1 <= Len(History') /\ History'[k + 1] = History[k]

AppendStep == History' # History /\ History' # <<>>

\* C30: a step that appends an operation of one profile (a manual run or a
\* run found by the reconciliation) leaves every record of every other
\* profile in the history, with every field as it was.
C30_CapIsPerProfile ==
    [][ AppendStep =>
          \A k \in DOMAIN History :
              History[k].profile_id # History'[1].profile_id => KeptAsIs(k)
      ]_vars

(***************************************************************************)
(* Properties of the byte counts (checked under SpecBytes).                *)
(***************************************************************************)
\* the step that reads a line of kind `kind` while an operation is open
ReadsWhileOpen(kind) ==
    /\ rc.pc = "scan" /\ rc.i <= Len(rc.lines) /\ rc' # rc
    /\ rc.current_operation # None
    /\ rc.lines[rc.i].kind = kind

\* the number of the size is an integer, with or without commas
IntegerSize(line) == \A k \in DOMAIN line.number : line.number[k] \in Digits \cup {","}

RECURSIVE Times(_, _, _)
Times(x, base, power) == IF power = 0 THEN x ELSE Times(MulAdd(x, base, 0), base, power - 1)

\* the number of the line times the multiplier of its unit: 1000^k for the
\* k-th decimal unit, 1024^k for the k-th binary unit
SizeOfLine(line) ==
    LET number == DigitsValue(U64(0), SelectSeq(line.number, LAMBDA c : c # ","))
    IN  IF \E k \in 1..5 : DecimalUnits[k] = line.unit
        THEN Times(number, 1000, (CHOOSE k \in 1..5 : DecimalUnits[k] = line.unit) - 1)
        ELSE Times(number, 1024, (CHOOSE k \in 1..5 : BinaryUnits[k] = line.unit) - 1)

\* C22: a byte-count line whose size is an integer with a unit of B, KB, MB,
\* GB, TB, KiB, MiB, GiB, TiB sets bytes_transferred of the open operation to
\* the number times the multiplier of the unit, commas and spaces stripped.
C22_BytesInEveryUnit ==
    [][ (ReadsWhileOpen("bytes") /\ IntegerSize(rc.lines[rc.i])) =>
            Unwrap(rc'.current_operation).bytes_transferred = SizeOfLine(rc.lines[rc.i])
      ]_vars

(***************************************************************************)
(* Properties of the statistics of a run (checked under SpecStats).        *)
(***************************************************************************)
\* a start marker that opens an operation
ValidStart(line) == start_regex(line) /\ parse_timestamp(line.stamp) # None

\* the line of the start marker of the operation that is open after the first
\* n lines, or 0 when none is open
RunStart(lines, n) ==
    LET F[k \in 0..n] ==
            IF k = 0 THEN 0
            ELSE IF ValidStart(lines[k]) THEN k
                 ELSE IF complete_regex(lines[k]) THEN 0
                      ELSE F[k - 1]
    IN  F[n]

\* the last line of the kind among lines from..to, or 0
LastOf(lines, from, to, kind) ==
    LET S == { k \in from..to : lines[k].kind = kind }
    IN  IF S = {} THEN 0 ELSE CHOOSE k \in S : \A l \in S : l <= k

FilesAt(lines, k) == IF k = 0 THEN U64(0) ELSE DigitsValue(U64(0), lines[k].n)
BytesAt(lines, k) == IF k = 0 THEN U64(0) ELSE SizeOfLine(lines[k])

\* the operation has the statistics of the lines from..to
HasStatsOf(op, lines, from, to) ==
    /\ op.files_transferred = FilesAt(lines, LastOf(lines, from, to, "files"))
    /\ op.bytes_transferred = BytesAt(lines, LastOf(lines, from, to, "bytes"))
    /\ op.log_output = SubSeq(lines, from, to)

\* the line at which the run that line s starts is closed: the first
\* completion marker after it, or the line past the end of the log
RunEnd(lines, s) ==
    LET S == { k \in (s + 1)..Len(lines) : complete_regex(lines[k]) }
    IN  IF S = {} THEN Len(lines) + 1 ELSE CHOOSE k \in S : \A l \in S : k <= l

\* C24: during the scan the open operation has the count of the last
\* file-count line and the size of the last byte-count line since its start
\* marker (0 without one) and all lines since the marker as log_output in file
\* order; with no operation open nothing is accumulated; every record saved
\* has the statistics of the lines between its start marker and its close.
C24_LastLineWins ==
    /\ rc.pc = "scan" =>
          LET s == RunStart(rc.lines, rc.i - 1)
          IN  IF s = 0 THEN rc.current_operation = None
              ELSE /\ rc.current_operation # None
                   /\ Unwrap(rc.current_operation).start_line = s
                   /\ HasStatsOf(Unwrap(rc.current_operation), rc.lines, s + 1, rc.i - 1)
    /\ \A k \in DOMAIN History :
          LET lines == Unwrap(logs[LogWriter])
              s == History[k].start_line
          IN  HasStatsOf(History[k], lines, s + 1, RunEnd(lines, s) - 1)

(***************************************************************************)
(* Properties of the reconciliation with a failing store (checked under    *)
(* SpecFail).                                                              *)
(***************************************************************************)
\* the command returns Err on this step
ErrorStep == last'.cmd = "error" /\ rc.pc = "scan" /\ rc' # rc

\* the command returns Ok on this step
OkStep == last'.cmd = "sync" /\ rc.pc = "scan" /\ rc' # rc

\* some record of `ops` was made from the run that line `line_no` of the log
\* of the profile starts
PersistedIn(ops, profile_id, line_no) ==
    \E k \in DOMAIN ops : ops[k].profile_id = profile_id /\ ops[k].start_line = line_no

\* C21: when persisting fails part-way the call returns an error and all it
\* persisted before stays in the store (the history it had is still there in
\* its order, the schedules are as the call last stored them); a later
\* successful call over the same log adds the runs not yet persisted and only
\* those.
C21_NoRollbackAndRetryAddsTheRest ==
    [][ /\ ErrorStep =>
             /\ \E n \in 0..1 : SubSeq(History', n + 1, Len(History')) = History
             /\ config'.profiles = config.profiles
        /\ OkStep =>
             \A k \in DOMAIN ClosedRuns(tz, rc.lines) :
                 LET line_no == ClosedRuns(tz, rc.lines)[k].start_line
                 IN  /\ PersistedIn(History', rc.profile_id, line_no)
                     /\ PersistedIn(rc.history_before, rc.profile_id, line_no)
                           => Cardinality({l \in DOMAIN History' :
                                  History'[l].profile_id = rc.profile_id
                                  /\ History'[l].start_line = line_no}) = 1
      ]_vars

(***************************************************************************)
(* Properties of the open operation of the scan (checked under SpecScan).  *)
(***************************************************************************)
\* the step that reads a start marker with a time stamp that parses while an
\* operation is open
ReplacingStep ==
    /\ rc.pc = "scan" /\ rc.i <= Len(rc.lines) /\ rc' # rc
    /\ rc.current_operation # None
    /\ ValidStart(rc.lines[rc.i])

\* C25: current_operation holds at most one operation; a start marker read
\* while an operation is open puts the new operation (started at the marker's
\* time, all counts 0) in its place, and the operation that was open is
\* dropped: the store is not written (no record, no schedule update), the
\* count of operations created stays, and no record of it is in the history.
C25_StartReplacesOpenOperation ==
    [][ /\ rc'.pc = "scan" => Len(rc'.current_operation) <= 1
        /\ ReplacingStep =>
             /\ config' = config
             /\ rc'.operations_created = rc.operations_created
             /\ rc'.closed = rc.closed
             /\ rc'.last_started = rc.last_started
             /\ rc'.current_operation =
                   Some(NewOperation(FreshId(History), rc.profile_id,
                           start_time_utc(tz, Unwrap(parse_timestamp(rc.lines[rc.i].stamp))),
                           rc.i))
             /\ ~PersistedIn(History', rc.profile_id, OpenRun.start_line)
      ]_vars

\* the run that line 1 starts was replaced by the run that line 2 starts, a
\* minute later; only the second was closed, saved and counted
C25_Witness ==
    /\ last.cmd = "sync" /\ last.closed = 1 /\ last.result = 1
    /\ logs[LogWriter] # None
    /\ Len(Unwrap(logs[LogWriter])) >= 2
    /\ Unwrap(logs[LogWriter])[1] = StartLine(StampA)
    /\ Unwrap(logs[LogWriter])[2] = StartLine(StampD)
    /\ Len(History) = 1
    /\ History[1].start_line = 2

\* a record of the profile in the snapshot started less than 60 seconds
\* before or after started_at
InSnapshot(started_at) ==
    \E k \in DOMAIN rc.history_before :
        /\ rc.history_before[k].profile_id = rc.profile_id
        /\ rc.history_before[k].started_at - started_at \in -59..59

\* C28: a closed run is compared with the snapshot loaded when the call
\* began, not with the records the call itself saved: when the call returns,
\* every closed run that is not within 60 seconds of a record of the snapshot
\* has a record in the history and is counted, however close to each other
\* the runs of the log are.
C28_SnapshotOnly ==
    [][ ReturnStep =>
          LET runs  == ClosedRuns(tz, rc.lines)
              fresh == { k \in DOMAIN runs : ~InSnapshot(runs[k].started_at) }
          IN  /\ last'.result = Cardinality(fresh)
              /\ \A k \in fresh : PersistedIn(History', rc.profile_id, runs[k].start_line)
      ]_vars

\* one call saved and counted two runs that started 45 seconds apart
C28_Witness ==
    /\ last.cmd = "sync" /\ last.result = 2
    /\ Len(History) = 2
    /\ History[1].start_line > 0 /\ History[2].start_line > 0
    /\ History[1].started_at - History[2].started_at = 45

(***************************************************************************)
(* Properties of the reconciliation of a growing log (checked under        *)
(* SpecGrow).                                                              *)
(***************************************************************************)
\* C26: a call that finds a run still in progress saves it as Completed, with
\* the counts read so far and the instant of the call as completed_at; a
\* later call that closes the run a record was already made from (at its
\* completion marker or again at the end of the log) leaves the history, that
\* record included, as it is and does not count the run.
C26_InProgressRunKeepsFirstRecord ==
    [][ /\ (ImplicitClose /\ ~SameRunIn(rc.history_before)) =>
              History' = << [OpenRun EXCEPT !.status = "Completed",
                                            !.completed_at = Some(now)] >> \o History
        /\ (ClosingStep /\ PersistedIn(rc.history_before, rc.profile_id, OpenRun.start_line)) =>
              /\ History' = History
              /\ IF AtEndOfLog THEN last'.result = rc.operations_created
                 ELSE rc'.operations_created = rc.operations_created
      ]_vars

\* the run was reconciled while its log held only the start marker; later the
\* log got a file count of 10 and the completion marker, and the call after
\* that closed the run, counted nothing and left the one record, made at the
\* start of the clock with no files, as it was
C26_Witness ==
    /\ last.cmd = "sync" /\ last.closed = 1 /\ last.result = 0
    /\ now > ClockStart
    /\ logs[LogWriter] = Some(<<StartLine(StampA), FilesLine(<<"1", "0">>), CompleteLine>>)
    /\ Len(History) = 1
    /\ History[1].start_line = 1
    /\ History[1].status = "Completed"
    /\ History[1].completed_at = Some(ClockStart)
    /\ History[1].files_transferred = U64(0)

\* the last_run stored for the profile in `cfg`, or None
StoredLastRun(cfg, profile_id) ==
    IF profile_id \in DOMAIN cfg.profiles /\ cfg.profiles[profile_id].schedule # None
    THEN Unwrap(cfg.profiles[profile_id].schedule).last_run
    ELSE None

\* the start markers of the log have increasing start times
IncreasingStarts(zone, lines) ==
    \A k \in DOMAIN lines : \A l \in DOMAIN lines :
        (k < l /\ ValidStart(lines[k]) /\ ValidStart(lines[l])) =>
            start_time_utc(zone, Unwrap(parse_timestamp(lines[k].stamp)))
                < start_time_utc(zone, Unwrap(parse_timestamp(lines[l].stamp)))

\* C27: while the log of the profile only grows and its runs have increasing
\* start times, no step writes a last_run that is earlier than the last_run
\* the store held before the step.
C27_LastRunNeverMovesBack ==
    [][ ( /\ logs[LogWriter] # None
          /\ IncreasingStarts(tz, Unwrap(logs[LogWriter]))
          /\ StoredLastRun(config, LogWriter) # None
          /\ StoredLastRun(config', LogWriter) # None ) =>
            Unwrap(StoredLastRun(config', LogWriter)) >= Unwrap(StoredLastRun(config, LogWriter))
      ]_vars

\* the profile is not in config.profiles, has no schedule, or has a schedule
\* that is not enabled
NothingToUpdate(cfg, profile_id) ==
    IF profile_id \notin DOMAIN cfg.profiles THEN TRUE
    ELSE IF cfg.profiles[profile_id].schedule = None THEN TRUE
    ELSE ~Unwrap(cfg.profiles[profile_id].schedule).enabled

ScheduleOf(p) == Unwrap(config.profiles[p].schedule)
HasSchedule(p) == p \in DOMAIN config.profiles /\ config.profiles[p].schedule # None

\* a reconciliation returned after closing at least one run
SyncClosedRuns == last.cmd = "sync" /\ last.closed > 0

C5_StoredNextRunIsCalculated ==
    [][ \A p \in ProfileIds, sch \in ScheduleInputs :
          (ScheduleBackup(p, sch, TRUE) /\ ScheduleBackupOk(p, sch, TRUE)) =>
              Unwrap(config'.profiles[p].schedule).next_run = calculate_next_run(tz, now, sch)
      ]_vars

\* C6: in every persisted state a profile whose schedule has enabled = false
\* has next_run absent.
C6_DisabledHasNoNextRun ==
    \A p \in ProfileIds :
        (HasSchedule(p) /\ ~ScheduleOf(p).enabled) => ScheduleOf(p).next_run = None

\* C19: when the registration with the OS scheduler fails, schedule_backup
\* still stores the schedule of the profile with its computed next_run.
C19_StoredDespiteOsFailure ==
    [][ \A p \in ProfileIds, sch \in ScheduleInputs :
          (ScheduleBackup(p, sch, FALSE) /\ simple_next_run(tz, now, sch).ok) =>
              /\ config'.profiles[p].schedule # None
              /\ Unwrap(config'.profiles[p].schedule).time = sch.time
              /\ Unwrap(config'.profiles[p].schedule).next_run = simple_next_run(tz, now, sch).next_run
      ]_vars

(***************************************************************************)
(* Properties of commands in flight together (checked under SpecConc).     *)
(***************************************************************************)
ConcDone == \A call \in Calls : rc[call].pc = "done"

\* the value a reconciliation returns
ConcResult(call) == Cardinality(rc[call].saved)

\* no other call is a command on the schedule of the profile
ScheduleLeftAlone(profile_id) ==
    \A call \in Calls :
        rc[call].cmd.kind \in {"schedule_backup", "unschedule_backup"}
            => rc[call].cmd.profile_id # profile_id

\* C20: with one reconciliation in flight per profile and any other store
\* command beside them, once all calls have returned every operation that a
\* call saved and counted is in the history, and the schedule of a profile
\* that no other command wrote has the last_run its reconciliation stored.
C20_NothingLostWithoutLocks ==
    ConcDone =>
        /\ \A call \in Calls : \A id \in rc[call].saved :
              \E k \in DOMAIN History : History[k].id = id
        /\ \A call \in {"r1", "r2"} :
              LET profile_id == rc[call].cmd.profile_id
              IN  (rc[call].last_started # None /\ ScheduleLeftAlone(profile_id)) =>
                      Unwrap(config.profiles[profile_id].schedule).last_run
                          = rc[call].last_started

(***************************************************************************)
(* Properties of the calculator (checked under SpecCalc).                  *)
(***************************************************************************)
CalcToday == date_naive(naive_local(tz, now))
CalcTime == Unwrap(parse_time(calc.schedule.time))
CalcKind == calc.schedule.frequency.kind
CalcN == calc.schedule.frequency.n

\* the instants at which the local wall clock shows `date` at the schedule's time
OccurrencesOn(date) == { u \in { and_time(date, CalcTime) + off : off \in {0, 5 * 3600, 6 * 3600} } :
                           naive_local(tz, u) = and_time(date, CalcTime) }
Unique(date) == Cardinality(OccurrencesOn(date)) = 1
TheOccurrence(date) == CHOOSE u \in OccurrencesOn(date) : TRUE

\* the calculator ran on an enabled schedule whose time parses
CalcRan(kind) ==
    /\ calc.done
    /\ calc.schedule.enabled
    /\ CalcKind = kind
    /\ parse_time(calc.schedule.time) # None

\* C7: calculate_next_run returns None for every schedule with enabled = false,
\* whatever its frequency and its time string (a time that does not parse included).
C7_DisabledYieldsNone ==
    (calc.done /\ ~calc.schedule.enabled) => calc.result = None

C7_Witness ==
    /\ calc.done
    /\ ~calc.schedule.enabled
    /\ calc.schedule.time = StrJunk
    /\ calc.schedule.frequency = Monthly(31)
    /\ calc.result = None

\* C8 as stated: an enabled Daily schedule yields today's date at the scheduled
\* time when that instant is strictly after now, and tomorrow's date at the
\* scheduled time otherwise.
C8_Original ==
    CalcRan("Daily") =>
        IF \E u \in OccurrencesOn(CalcToday) : u > now
        THEN \E u \in OccurrencesOn(CalcToday) : u > now /\ calc.result = Some(u)
        ELSE \E u \in OccurrencesOn(CalcToday + 1) : calc.result = Some(u)

\* C8 amended: the same, provided the wall-clock time of the day looked at is
\* shown by exactly one instant; a scheduled time that a clock change skips or
\* repeats today (or tomorrow, once today's run is past) yields None.
C8_DailyTodayOrTomorrow ==
    CalcRan("Daily") =>
        IF ~Unique(CalcToday) THEN calc.result = None
        ELSE IF TheOccurrence(CalcToday) > now
             THEN calc.result = Some(TheOccurrence(CalcToday))
             ELSE IF Unique(CalcToday + 1)
                  THEN calc.result = Some(TheOccurrence(CalcToday + 1))
                  ELSE calc.result = None

\* the run is asked for at the very instant today's run is due: tomorrow's is returned
C8_Witness ==
    /\ CalcRan("Daily")
    /\ Unique(CalcToday)
    /\ TheOccurrence(CalcToday) = now
    /\ calc.result = Some(now + SecondsPerDay)

CalcWeekday == num_days_from_sunday(CalcToday)
C9_DaysUntil == (CalcN - CalcWeekday + 7) % 7

\* C9 as stated: Weekly(w), w in 0..6, uses days_until = (w - weekday + 7) mod 7;
\* days_until > 0 gives today + days_until at the scheduled time, days_until = 0
\* gives today's run if strictly after now and the run 7 days later otherwise;
\* the result falls on weekday w.
C9_Original ==
    (CalcRan("Weekly") /\ CalcN \in 0..6) =>
        LET date == IF C9_DaysUntil > 0 THEN CalcToday + C9_DaysUntil
                    ELSE IF \E u \in OccurrencesOn(CalcToday) : u > now
                         THEN CalcToday ELSE CalcToday + 7
        IN  /\ \E u \in OccurrencesOn(date) : calc.result = Some(u)
            /\ num_days_from_sunday(date_naive(naive_local(tz, Unwrap(calc.result)))) = CalcN

\* C9 amended: the same, provided the wall-clock time of each day looked at is
\* shown by exactly one instant; otherwise None.
C9_WeeklyTargetDay ==
    (CalcRan("Weekly") /\ CalcN \in 0..6) =>
        IF C9_DaysUntil = 0 /\ ~Unique(CalcToday) THEN calc.result = None
        ELSE LET date == IF C9_DaysUntil > 0 THEN CalcToday + C9_DaysUntil
                         ELSE IF TheOccurrence(CalcToday) > now
                              THEN CalcToday ELSE CalcToday + 7
             IN  IF ~Unique(date) THEN calc.result = None
                 ELSE /\ calc.result = Some(TheOccurrence(date))
                      /\ num_days_from_sunday(date_naive(naive_local(tz, Unwrap(calc.result)))) = CalcN

\* today is the target weekday and today's run is already past: the run 7 days later
C9_Witness ==
    /\ CalcRan("Weekly")
    /\ CalcN = CalcWeekday
    /\ Unique(CalcToday)
    /\ TheOccurrence(CalcToday) < now
    /\ Unique(CalcToday + 7)
    /\ calc.result = Some(TheOccurrence(CalcToday + 7))

CalcCivil == CivilFromDays(CalcToday)
CalcNextMonth == IF CalcCivil.month = 12
                 THEN [year |-> CalcCivil.year + 1, month |-> 1]
                 ELSE [year |-> CalcCivil.year, month |-> CalcCivil.month + 1]
DayExists(ym, d) == d >= 1 /\ d <= DaysInMonth(ym.year, ym.month)
\* day d of this month is today or later
C10_ThisMonthCandidate == CalcN >= CalcCivil.day /\ DayExists(CalcCivil, CalcN)
C10_ThisMonthDate == DaysFromCivil(CalcCivil.year, CalcCivil.month, CalcN)
C10_NextMonthDate == DaysFromCivil(CalcNextMonth.year, CalcNextMonth.month, CalcN)

\* C10 as stated: Monthly(d) yields day d of the current month when d >= today's
\* day, the date exists and its occurrence is strictly after now; otherwise day d
\* of the next month (December wrapping to January of the next year) when that
\* date exists; and None exactly when day d does not exist in the next month.
C10_Original ==
    CalcRan("Monthly") =>
        IF C10_ThisMonthCandidate /\ \E u \in OccurrencesOn(C10_ThisMonthDate) : u > now
        THEN \E u \in OccurrencesOn(C10_ThisMonthDate) : u > now /\ calc.result = Some(u)
        ELSE IF DayExists(CalcNextMonth, CalcN)
             THEN \E u \in OccurrencesOn(C10_NextMonthDate) : calc.result = Some(u)
             ELSE calc.result = None

\* C10 amended: the same, provided the wall-clock time of each date looked at is
\* shown by exactly one instant; otherwise None.
C10_MonthlyThisOrNext ==
    CalcRan("Monthly") =>
        LET in_next == IF ~DayExists(CalcNextMonth, CalcN) THEN None
                       ELSE IF Unique(C10_NextMonthDate)
                            THEN Some(TheOccurrence(C10_NextMonthDate)) ELSE None
        IN  IF C10_ThisMonthCandidate
            THEN IF ~Unique(C10_ThisMonthDate) THEN calc.result = None
                 ELSE IF TheOccurrence(C10_ThisMonthDate) > now
                      THEN calc.result = Some(TheOccurrence(C10_ThisMonthDate))
                      ELSE calc.result = in_next
            ELSE calc.result = in_next

\* 31 December, day 15: the run of 15 January of the next year
C10_Witness ==
    /\ CalcRan("Monthly")
    /\ CalcCivil.month = 12
    /\ CalcN = 15
    /\ calc.result # None
    /\ CivilFromDays(date_naive(naive_local(tz, Unwrap(calc.result)))) =
           [year |-> CalcCivil.year + 1, month |-> 1, day |-> 15]

\* day 31 asked for on 31 January after the time: February has no day 31, None
C10_WitnessNone ==
    /\ CalcRan("Monthly")
    /\ CalcN = 31
    /\ CalcCivil.month = 1
    /\ calc.result = None

\* how many days ahead the search for the earliest occurrence looks
MaxHorizon == 62

\* the date satisfies the schedule's frequency
Satisfies(date) ==
    CASE CalcKind = "Daily" -> TRUE
      [] CalcKind = "Weekly" -> num_days_from_sunday(date) = CalcN
      [] CalcKind = "Monthly" -> CivilFromDays(date).day = CalcN

\* the future instants at which the local wall clock shows the scheduled time
\* on a date that satisfies the frequency
FutureOccurrences ==
    UNION { { u \in OccurrencesOn(CalcToday + k) : u > now } :
            k \in { j \in 0..MaxHorizon : Satisfies(CalcToday + j) } }

\* no clock change skips or repeats the scheduled time on a date that satisfies
\* the frequency
NoClockChange ==
    \A k \in { j \in 0..MaxHorizon : Satisfies(CalcToday + j) } : Unique(CalcToday + k)

CalcValidEnabled ==
    /\ calc.done
    /\ calc.schedule.enabled
    /\ parse_time(calc.schedule.time) # None
    /\ \/ CalcKind = "Daily"
       \/ CalcKind = "Weekly" /\ CalcN \in 0..6
       \/ CalcKind = "Monthly" /\ CalcN \in 1..31

\* C4 as stated: for every enabled schedule with a valid time, a weekday in
\* 0..6 or a day of month in 1..31, the computed next_run is present, strictly
\* after now, and the earliest future local occurrence of the time that
\* satisfies the frequency.
C4_Original ==
    CalcValidEnabled =>
        /\ calc.result # None
        /\ Unwrap(calc.result) > now
        /\ FutureOccurrences # {}
        /\ Unwrap(calc.result) = SetMin(FutureOccurrences)

\* C4 amended: whenever next_run is present it is strictly after now and the
\* earliest such occurrence; it is present for Daily and Weekly schedules, and
\* for Monthly schedules unless the calculator goes on to the next month and
\* that month has no such day, provided no clock change skips or repeats the
\* scheduled time.
C4_EarliestWhenPresent ==
    CalcValidEnabled =>
        /\ calc.result # None =>
              /\ Unwrap(calc.result) > now
              /\ FutureOccurrences # {}
              /\ Unwrap(calc.result) = SetMin(FutureOccurrences)
        /\ ( /\ NoClockChange
             /\ \/ CalcKind \in {"Daily", "Weekly"}
                \/ DayExists(CalcNextMonth, CalcN)
                \/ C10_ThisMonthCandidate /\ TheOccurrence(C10_ThisMonthDate) > now )
           => calc.result # None

\* day 31 asked for on 30 April: April has no day 31, the run of 31 May
C4_Witness ==
    /\ CalcValidEnabled
    /\ CalcKind = "Monthly"
    /\ CalcN = 31
    /\ CalcCivil.month = 4
    /\ calc.result # None
    /\ Unwrap(calc.result) = SetMin(FutureOccurrences)
    /\ CivilFromDays(date_naive(naive_local(tz, Unwrap(calc.result)))).month = 5

====
